---- MODULE Spec2Model ----
(***************************************************************************)
(* Model of the import and reconciliation engine of aequi                  *)
(* (crates/import): the auto-match engine, the duplicate detector and the  *)
(* categorization rule engine, with the string primitives they share.      *)
(*                                                                         *)
(* Strings are sequences of one-character strings.  f32 scores are exact   *)
(* rationals <<numerator, denominator>> in lowest terms with a positive    *)
(* denominator.  Dates are day numbers (NaiveDate differences are whole    *)
(* days).  Option<T> is a sequence of length 0 (None) or 1 (Some).         *)
(***************************************************************************)
EXTENDS Integers, Sequences, FiniteSets, TLC

VARIABLES
    pc,          \* position of the modelled call: "ready" or "done"
    engine,      \* AutoMatchEngine { date_window_days, fuzzy_threshold, amount_tolerance_cents }
    imported,    \* find_matches: imported transactions
    existing,    \* find_matches: existing ledger transactions
    results,     \* find_matches: returned Vec<MatchResult>
    batch,       \* find_duplicates: the scanned slice
    dup_args,    \* find_duplicates: [window_days, threshold]
    duplicates,  \* find_duplicates: returned Vec<(i64, i64)>
    rule_list,   \* CategoryRuleEngine::new: rules as declared by the caller
    rule_engine, \* CategoryRuleEngine.rules: compiled rules, sorted
    cat_tx,      \* find_matching_rule: the transaction
    found_rule,  \* find_matching_rule: returned Option<&CategoryRule>
    cat_batch,   \* apply_rules: the transactions
    applied,     \* apply_rules: returned Vec<(usize, &CategoryRule)>
    sim_a,       \* similarity: the first string
    sim_b,       \* similarity: the second string
    sim_out,     \* similarity: the scores computed from sim_a and sim_b
    amt_cents,   \* parse_amount round trip: the cents value
    amt_style,   \* parse_amount round trip: how the value is written
    amt_text,    \* parse_amount: the argument
    amt_parsed,  \* parse_amount: returned Result<i64, CsvError>
    csv_profile, \* import_csv: the CsvImportProfile
    csv_rows,    \* import_csv: the rows of the input, each a sequence of fields
    csv_result,  \* import_csv: returned Result<Vec<CsvTransaction>, CsvError>
    account,     \* OfxParser::parse: account { account_id, bank_id, account_type }
    start_date,  \* OfxParser::parse: start_date, Option<NaiveDate>
    end_date,    \* OfxParser::parse: end_date, Option<NaiveDate>
    ofx_transactions, \* OfxParser::parse: transactions, Vec<OfxTransaction>
    currency,    \* OfxParser::parse: currency, Option<String>
    in_stmttrn,  \* OfxParser::parse: in_stmttrn
    current_trx, \* OfxParser::parse: current_trx, Option<BuildingTrx>
    last_line,   \* OfxParser::parse: the line of the latest loop iteration
    lines_read,  \* OfxParser::parse: number of lines consumed
    ofx_result,  \* OfxParser::parse: returned Result<OfxStatement, OfxError>
    date_text,   \* parse_date: the text of the date cell
    date_format, \* parse_date: the profile's date format, as its items
    date_parsed  \* parse_date: returned Result<NaiveDate, CsvError>

apply_vars == <<cat_batch, applied>>

sim_vars == <<sim_a, sim_b, sim_out>>

amount_vars == <<amt_cents, amt_style, amt_text, amt_parsed>>

csv_vars == <<csv_profile, csv_rows, csv_result>>

ofx_vars == <<account, start_date, end_date, ofx_transactions, currency, in_stmttrn, current_trx, last_line, lines_read, ofx_result>>

date_vars == <<date_text, date_format, date_parsed>>

vars == <<pc, engine, imported, existing, results, batch, dup_args, duplicates,
          rule_list, rule_engine, cat_tx, found_rule,
          apply_vars,
          sim_vars,
          amount_vars,
          csv_vars,
          ofx_vars,
          date_vars>>

-----------------------------------------------------------------------------
(* Bounds of the explored inputs *)

MaxImported == 2
MaxExisting == 2
MaxBatch == 3
MaxRules == 3
MaxApplyRules == 2
MaxCatBatch == 3
MaxSimLen == 3
MaxCents == 120
MaxCsvRows == 2
MaxLines == 7

-----------------------------------------------------------------------------
(* Exact rational arithmetic standing for f32 *)

Abs(x) == IF x < 0 THEN -x ELSE x

Max(x, y) == IF x >= y THEN x ELSE y

Min(x, y) == IF x <= y THEN x ELSE y

RECURSIVE Gcd(_, _)
Gcd(x, y) == IF y = 0 THEN x ELSE Gcd(y, x % y)

Rat(n, d) ==
    LET s == IF d < 0 THEN -1 ELSE 1
        g == Gcd(Abs(n), Abs(d))
    IN  <<(s * n) \div g, (s * d) \div g>>

RatAdd(p, q) == Rat(p[1] * q[2] + q[1] * p[2], p[2] * q[2])

RatSub(p, q) == Rat(p[1] * q[2] - q[1] * p[2], p[2] * q[2])

RatHalf(p) == Rat(p[1], 2 * p[2])

RatLeq(p, q) == p[1] * q[2] <= q[1] * p[2]

RatLt(p, q) == p[1] * q[2] < q[1] * p[2]

RatGeq(p, q) == RatLeq(q, p)

Zero == <<0, 1>>

One == <<1, 1>>

-----------------------------------------------------------------------------
(* Characters and strings *)

Lower == {"a", "b", "c", "d"}

Upper == {"A", "B"}

ToLowerChar(c) ==
    CASE c = "A" -> "a"
      [] c = "B" -> "b"
      [] OTHER -> c

IsAlphanumeric(c) == c \in Lower \cup Upper

ToLowercase(s) == [k \in 1..Len(s) |-> ToLowerChar(s[k])]

\* str::split on a predicate: the pieces between separators, empty ones included
RECURSIVE SplitAcc(_, _, _)
SplitAcc(s, cur, acc) ==
    IF s = <<>> THEN Append(acc, cur)
    ELSE IF IsAlphanumeric(Head(s)) THEN SplitAcc(Tail(s), Append(cur, Head(s)), acc)
    ELSE SplitAcc(Tail(s), <<>>, Append(acc, cur))

Split(s) == SplitAcc(s, <<>>, <<>>)

RECURSIVE Join(_)
Join(ws) ==
    IF ws = <<>> THEN <<>>
    ELSE IF Len(ws) = 1 THEN ws[1]
    ELSE ws[1] \o <<" ">> \o Join(Tail(ws))

normalize(s) == Join(SelectSeq(Split(ToLowercase(s)), LAMBDA w : w /= <<>>))

-----------------------------------------------------------------------------
(* util.rs: two-row Levenshtein distance *)

\* the inner loop over j = from..n, filling curr from prev
RECURSIVE LevRow(_, _, _, _, _, _)
LevRow(a, b, i, j, prev, curr) ==
    IF j > Len(b) THEN curr
    ELSE LET cost == IF a[i] /= b[j] THEN 1 ELSE 0
             v == Min(Min(prev[j + 1] + 1, curr[j] + 1), prev[j] + cost)
         IN  LevRow(a, b, i, j + 1, prev, [curr EXCEPT ![j + 1] = v])

\* the outer loop without the swap of the two rows after each iteration
RECURSIVE LevLoop_rows_not_swapped(_, _, _, _, _)
LevLoop_rows_not_swapped(a, b, i, prev, curr) ==
    IF i > Len(a) THEN prev[Len(b) + 1]
    ELSE LET filled == LevRow(a, b, i, 1, prev, [curr EXCEPT ![1] = i])
         IN  LevLoop_rows_not_swapped(a, b, i + 1, prev, filled)

\* the outer loop over i = from..m; rows are indexed 1..n+1 for columns 0..n
RECURSIVE LevLoop(_, _, _, _, _)
LevLoop(a, b, i, prev, curr) ==
    IF i > Len(a) THEN prev[Len(b) + 1]
    ELSE LET filled == LevRow(a, b, i, 1, prev, [curr EXCEPT ![1] = i])
         IN  LevLoop(a, b, i + 1, filled, prev)

levenshtein_distance(s1, s2) ==
    IF Len(s1) = 0 THEN Len(s2)
    ELSE IF Len(s2) = 0 THEN Len(s1)
    ELSE LET a == IF Len(s1) <= Len(s2) THEN s1 ELSE s2
             b == IF Len(s1) <= Len(s2) THEN s2 ELSE s1
         IN  LevLoop(a, b, 1, [k \in 1..(Len(b) + 1) |-> k - 1],
                     [k \in 1..(Len(b) + 1) |-> 0])

-----------------------------------------------------------------------------
(* match_engine.rs *)

description_similarity(s1, s2) ==
    LET a == normalize(s1)
        b == normalize(s2)
        max_len == Max(Len(a), Len(b))
    IN  IF a = b THEN One
        ELSE IF max_len = 0 THEN One
        ELSE RatSub(One, Rat(levenshtein_distance(a, b), max_len))

\* score_pair without the absolute value of the amount difference
score_pair_signed_diff(eng, imp, exp) ==
    LET diff_cents == imp.amount_cents - exp.amount_cents
        date_diff == Abs(imp.date - exp.date)
    IN  IF diff_cents > eng.amount_tolerance_cents THEN <<>>
        ELSE IF date_diff > eng.date_window_days THEN <<>>
        ELSE IF date_diff = 0 /\ diff_cents = 0
             THEN << <<exp.id, <<"Exact">>, One, 0>> >>
        ELSE LET date_score == RatSub(One, Rat(date_diff, eng.date_window_days + 1))
                 desc_score == description_similarity(imp.description, exp.description)
                 confidence == RatHalf(RatAdd(date_score, desc_score))
             IN  IF RatGeq(confidence, eng.fuzzy_threshold)
                 THEN LET match_type == IF date_diff = 0 THEN <<"DateAndAmount">>
                                        ELSE <<"Fuzzy", confidence>>
                      IN  << <<exp.id, match_type, confidence, diff_cents>> >>
                 ELSE <<>>

\* score_pair that applies the fuzzy threshold to the perfect hit as well
score_pair_no_short_circuit(eng, imp, exp) ==
    LET diff_cents == Abs(imp.amount_cents - exp.amount_cents)
        date_diff == Abs(imp.date - exp.date)
    IN  IF diff_cents > eng.amount_tolerance_cents THEN <<>>
        ELSE IF date_diff > eng.date_window_days THEN <<>>
        ELSE LET date_score == RatSub(One, Rat(date_diff, eng.date_window_days + 1))
                 desc_score == description_similarity(imp.description, exp.description)
                 confidence == RatHalf(RatAdd(date_score, desc_score))
             IN  IF RatGeq(confidence, eng.fuzzy_threshold)
                 THEN LET match_type == IF date_diff = 0 /\ diff_cents = 0 THEN <<"Exact">>
                                        ELSE IF date_diff = 0 THEN <<"DateAndAmount">>
                                        ELSE <<"Fuzzy", confidence>>
                      IN  << <<exp.id, match_type, confidence, diff_cents>> >>
                 ELSE <<>>

\* score_pair that accepts only a confidence strictly above the threshold
score_pair_strict_threshold(eng, imp, exp) ==
    LET diff_cents == Abs(imp.amount_cents - exp.amount_cents)
        date_diff == Abs(imp.date - exp.date)
    IN  IF diff_cents > eng.amount_tolerance_cents THEN <<>>
        ELSE IF date_diff > eng.date_window_days THEN <<>>
        ELSE IF date_diff = 0 /\ diff_cents = 0
             THEN << <<exp.id, <<"Exact">>, One, 0>> >>
        ELSE LET date_score == RatSub(One, Rat(date_diff, eng.date_window_days + 1))
                 desc_score == description_similarity(imp.description, exp.description)
                 confidence == RatHalf(RatAdd(date_score, desc_score))
             IN  IF RatLt(eng.fuzzy_threshold, confidence)
                 THEN LET match_type == IF date_diff = 0 THEN <<"DateAndAmount">>
                                        ELSE <<"Fuzzy", confidence>>
                      IN  << <<exp.id, match_type, confidence, diff_cents>> >>
                 ELSE <<>>

\* score_pair that sums the two scores without halving
score_pair_not_halved(eng, imp, exp) ==
    LET diff_cents == Abs(imp.amount_cents - exp.amount_cents)
        date_diff == Abs(imp.date - exp.date)
    IN  IF diff_cents > eng.amount_tolerance_cents THEN <<>>
        ELSE IF date_diff > eng.date_window_days THEN <<>>
        ELSE IF date_diff = 0 /\ diff_cents = 0
             THEN << <<exp.id, <<"Exact">>, One, 0>> >>
        ELSE LET date_score == RatSub(One, Rat(date_diff, eng.date_window_days + 1))
                 desc_score == description_similarity(imp.description, exp.description)
                 confidence == RatAdd(date_score, desc_score)
             IN  IF RatGeq(confidence, eng.fuzzy_threshold)
                 THEN LET match_type == IF date_diff = 0 THEN <<"DateAndAmount">>
                                        ELSE <<"Fuzzy", confidence>>
                      IN  << <<exp.id, match_type, confidence, diff_cents>> >>
                 ELSE <<>>

\* Option<(tx_id, match_type, confidence, diff_cents)>
\* score_pair whose perfect hit is subject to the fuzzy threshold as well
score_pair_exact_thresholded(eng, imp, exp) ==
    LET diff_cents == Abs(imp.amount_cents - exp.amount_cents)
        date_diff == Abs(imp.date - exp.date)
    IN  IF diff_cents > eng.amount_tolerance_cents THEN <<>>
        ELSE IF date_diff > eng.date_window_days THEN <<>>
        ELSE LET date_score == RatSub(One, Rat(date_diff, eng.date_window_days + 1))
                 desc_score == description_similarity(imp.description, exp.description)
                 confidence == IF date_diff = 0 /\ diff_cents = 0 THEN One
                               ELSE RatHalf(RatAdd(date_score, desc_score))
             IN  IF RatGeq(confidence, eng.fuzzy_threshold)
                 THEN LET match_type == IF date_diff = 0 /\ diff_cents = 0 THEN <<"Exact">>
                                        ELSE IF date_diff = 0 THEN <<"DateAndAmount">>
                                        ELSE <<"Fuzzy", confidence>>
                      IN  << <<exp.id, match_type, confidence, diff_cents>> >>
                 ELSE <<>>

score_pair(eng, imp, exp) ==
    LET diff_cents == Abs(imp.amount_cents - exp.amount_cents)
        date_diff == Abs(imp.date - exp.date)
    IN  IF diff_cents > eng.amount_tolerance_cents THEN <<>>
        ELSE IF date_diff > eng.date_window_days THEN <<>>
        ELSE IF date_diff = 0 /\ diff_cents = 0
             THEN << <<exp.id, <<"Exact">>, One, 0>> >>
        ELSE LET date_score == RatSub(One, Rat(date_diff, eng.date_window_days + 1))
                 desc_score == description_similarity(imp.description, exp.description)
                 confidence == RatHalf(RatAdd(date_score, desc_score))
             IN  IF RatGeq(confidence, eng.fuzzy_threshold)
                 THEN LET match_type == IF date_diff = 0 THEN <<"DateAndAmount">>
                                        ELSE <<"Fuzzy", confidence>>
                      IN  << <<exp.id, match_type, confidence, diff_cents>> >>
                 ELSE <<>>

\* max_by turned into a minimum: a later element replaces the running one
\* unless the running one is strictly smaller
RECURSIVE MaxByConfidence_min(_, _)
MaxByConfidence_min(best, cands) ==
    IF cands = <<>> THEN best
    ELSE IF best = <<>> THEN MaxByConfidence_min(<<Head(cands)>>, Tail(cands))
    ELSE IF RatLt(best[1][3], Head(cands)[3]) THEN MaxByConfidence_min(best, Tail(cands))
    ELSE MaxByConfidence_min(<<Head(cands)>>, Tail(cands))

\* max_by that keeps the first of several equal maxima: a later element
\* replaces the running maximum only when it is strictly greater
RECURSIVE MaxByConfidence_keeps_first(_, _)
MaxByConfidence_keeps_first(best, cands) ==
    IF cands = <<>> THEN best
    ELSE IF best = <<>> THEN MaxByConfidence_keeps_first(<<Head(cands)>>, Tail(cands))
    ELSE IF RatLt(best[1][3], Head(cands)[3])
         THEN MaxByConfidence_keeps_first(<<Head(cands)>>, Tail(cands))
    ELSE MaxByConfidence_keeps_first(best, Tail(cands))

\* Iterator::max_by over the candidates' confidence: a later element replaces
\* the running maximum unless the running maximum is strictly greater
RECURSIVE MaxByConfidence(_, _)
MaxByConfidence(best, cands) ==
    IF cands = <<>> THEN best
    ELSE IF best = <<>> THEN MaxByConfidence(<<Head(cands)>>, Tail(cands))
    ELSE IF RatLt(Head(cands)[3], best[1][3]) THEN MaxByConfidence(best, Tail(cands))
    ELSE MaxByConfidence(<<Head(cands)>>, Tail(cands))

\* filter_map(score_pair): the accepted candidates in the order of existing
RECURSIVE Candidates(_, _, _)
Candidates(eng, imp, exs) ==
    IF exs = <<>> THEN <<>>
    ELSE score_pair(eng, imp, Head(exs)) \o Candidates(eng, imp, Tail(exs))

\* find_best_match that forgets to carry the candidate's match type
find_best_match_lost_type(eng, imp, exs) ==
    LET best == MaxByConfidence(<<>>, Candidates(eng, imp, exs))
    IN  IF best /= <<>>
        THEN [imported_tx_id |-> imp.id,
              matched_tx_id |-> <<best[1][1]>>,
              match_type |-> <<"None">>,
              confidence |-> best[1][3],
              difference_cents |-> best[1][4]]
        ELSE [imported_tx_id |-> imp.id,
              matched_tx_id |-> <<>>,
              match_type |-> <<"None">>,
              confidence |-> Zero,
              difference_cents |-> 0]

\* find_best_match that stops at the first accepted candidate (find_map
\* instead of filter_map followed by max_by)
find_best_match_first_accepted(eng, imp, exs) ==
    LET cands == Candidates(eng, imp, exs)
    IN  IF cands /= <<>>
        THEN [imported_tx_id |-> imp.id,
              matched_tx_id |-> <<cands[1][1]>>,
              match_type |-> cands[1][2],
              confidence |-> cands[1][3],
              difference_cents |-> cands[1][4]]
        ELSE [imported_tx_id |-> imp.id,
              matched_tx_id |-> <<>>,
              match_type |-> <<"None">>,
              confidence |-> Zero,
              difference_cents |-> 0]

find_best_match(eng, imp, exs) ==
    LET best == MaxByConfidence(<<>>, Candidates(eng, imp, exs))
    IN  IF best /= <<>>
        THEN [imported_tx_id |-> imp.id,
              matched_tx_id |-> <<best[1][1]>>,
              match_type |-> best[1][2],
              confidence |-> best[1][3],
              difference_cents |-> best[1][4]]
        ELSE [imported_tx_id |-> imp.id,
              matched_tx_id |-> <<>>,
              match_type |-> <<"None">>,
              confidence |-> Zero,
              difference_cents |-> 0]

\* find_matches that collects the results in reverse order
find_matches_reversed(eng, imps, exs) ==
    [k \in 1..Len(imps) |-> find_best_match(eng, imps[Len(imps) + 1 - k], exs)]

\* find_matches that enforces a one-to-one assignment: an existing transaction
\* matched once is withdrawn from the candidates of the later imports
RECURSIVE find_matches_one_to_one(_, _, _)
find_matches_one_to_one(eng, imps, exs) ==
    IF imps = <<>> THEN <<>>
    ELSE LET r == find_best_match(eng, Head(imps), exs)
             rest == IF r.matched_tx_id = <<>> THEN exs
                     ELSE SelectSeq(exs, LAMBDA e : e.id /= r.matched_tx_id[1])
         IN  <<r>> \o find_matches_one_to_one(eng, Tail(imps), rest)

find_matches(eng, imps, exs) ==
    [k \in 1..Len(imps) |-> find_best_match(eng, imps[k], exs)]

\* one step of the scan: the pair (i, j) is pushed when it passes the three tests
DupVisit(txs, i, j, window_days, threshold, acc) ==
    LET t1 == txs[i]
        t2 == txs[j]
        date_diff == Abs(t1.date - t2.date)
    IN  IF t1.amount_cents /= t2.amount_cents THEN acc
        ELSE IF date_diff > window_days THEN acc
        ELSE IF RatGeq(description_similarity(t1.description, t2.description), threshold)
             THEN Append(acc, <<t1.id, t2.id>>)
        ELSE acc

\* the scan started with j = i instead of j = i + 1
RECURSIVE DupLoop_from_i(_, _, _, _, _, _)
DupLoop_from_i(txs, i, j, window_days, threshold, acc) ==
    IF i > Len(txs) THEN acc
    ELSE IF j > Len(txs) THEN DupLoop_from_i(txs, i + 1, i + 1, window_days, threshold, acc)
    ELSE DupLoop_from_i(txs, i, j + 1, window_days, threshold,
                        DupVisit(txs, i, j, window_days, threshold, acc))

find_duplicates_self_pairs(txs, window_days, threshold) ==
    DupLoop_from_i(txs, 1, 1, window_days, threshold, <<>>)

\* for i in 0..len { for j in (i + 1)..len { ... } }, with 1-based indices
RECURSIVE DupLoop(_, _, _, _, _, _)
DupLoop(txs, i, j, window_days, threshold, acc) ==
    IF i > Len(txs) THEN acc
    ELSE IF j > Len(txs) THEN DupLoop(txs, i + 1, i + 2, window_days, threshold, acc)
    ELSE DupLoop(txs, i, j + 1, window_days, threshold,
                 DupVisit(txs, i, j, window_days, threshold, acc))

find_duplicates(txs, window_days, threshold) ==
    DupLoop(txs, 1, 2, window_days, threshold, <<>>)

-----------------------------------------------------------------------------
(* rules.rs *)

\* str::contains: pattern occurs as a contiguous run of text
Contains(text, pattern) ==
    \E k \in 0..(Len(text) - Len(pattern)) :
        \A m \in 1..Len(pattern) : text[k + m] = pattern[m]

StartsWith(text, prefix) ==
    /\ Len(prefix) <= Len(text)
    /\ \A m \in 1..Len(prefix) : text[m] = prefix[m]

\* regex::Regex::new(..).ok() on the patterns used here: literal characters
\* with an optional leading ^; a pattern with an unclosed group does not compile
RegexNew(pattern) ==
    IF \E m \in 1..Len(pattern) : pattern[m] = "(" THEN <<>> ELSE <<pattern>>

\* Regex::is_match: an unanchored search, anchored at the start after ^
RegexIsMatch(re, text) ==
    IF re /= <<>> /\ Head(re) = "^" THEN StartsWith(text, Tail(re))
    ELSE Contains(text, re)

\* fuzzy_score returning the normalized distance itself
fuzzy_score_distance(s1, s2) ==
    LET max_len == Max(Len(s1), Len(s2))
    IN  IF max_len = 0 THEN One
        ELSE Rat(levenshtein_distance(s1, s2), max_len)

fuzzy_score(s1, s2) ==
    LET max_len == Max(Len(s1), Len(s2))
    IN  IF max_len = 0 THEN One
        ELSE RatSub(One, Rat(levenshtein_distance(s1, s2), max_len))

\* a CompiledRule
Compile(rule) ==
    [rule |-> rule,
     compiled_regex |-> IF rule.match_type = <<"Regex">> THEN RegexNew(rule.pattern)
                        ELSE <<>>]

\* an insertion that puts a rule before the rules of the same priority
RECURSIVE InsertBeforeEqual(_, _)
InsertBeforeEqual(cr, sorted) ==
    IF sorted = <<>> THEN <<cr>>
    ELSE IF Head(sorted).rule.priority > cr.rule.priority
         THEN <<Head(sorted)>> \o InsertBeforeEqual(cr, Tail(sorted))
    ELSE <<cr>> \o sorted

RECURSIVE SortUnstableFrom(_, _)
SortUnstableFrom(crs, sorted) ==
    IF crs = <<>> THEN sorted
    ELSE SortUnstableFrom(Tail(crs), InsertBeforeEqual(Head(crs), sorted))

\* a sort by descending priority that reverses the rules of equal priority
sort_by_priority_unstable(crs) == SortUnstableFrom(crs, <<>>)

\* a rule goes behind every rule of higher or equal priority already placed
RECURSIVE InsertByPriority(_, _)
InsertByPriority(cr, sorted) ==
    IF sorted = <<>> THEN <<cr>>
    ELSE IF Head(sorted).rule.priority >= cr.rule.priority
         THEN <<Head(sorted)>> \o InsertByPriority(cr, Tail(sorted))
    ELSE <<cr>> \o sorted

RECURSIVE SortFrom(_, _)
SortFrom(crs, sorted) ==
    IF crs = <<>> THEN sorted
    ELSE SortFrom(Tail(crs), InsertByPriority(Head(crs), sorted))

\* compiled.sort_by(|a, b| b.rule.priority.cmp(&a.rule.priority)): a stable sort
sort_by_priority_desc(crs) == SortFrom(crs, <<>>)

\* CategoryRuleEngine::new
new_engine(rules) == sort_by_priority_desc([k \in 1..Len(rules) |-> Compile(rules[k])])

\* rule_matches with the lower bound exclusive
rule_matches_exclusive_min(cr, tx) ==
    LET rule == cr.rule
        text == ToLowercase(tx.description)
        pattern == ToLowercase(rule.pattern)
    IN  IF rule.amount_min_cents /= <<>> /\ tx.amount_cents <= rule.amount_min_cents[1]
        THEN FALSE
        ELSE IF rule.amount_max_cents /= <<>> /\ tx.amount_cents > rule.amount_max_cents[1]
        THEN FALSE
        ELSE CASE rule.match_type = <<"Contains">> -> Contains(text, pattern)
               [] rule.match_type = <<"Exact">> -> text = pattern
               [] rule.match_type = <<"Regex">> ->
                      /\ cr.compiled_regex /= <<>>
                      /\ RegexIsMatch(cr.compiled_regex[1], tx.description)
               [] OTHER -> RatGeq(fuzzy_score(text, pattern), rule.match_type[2])

\* rule_matches in which a Regex rule without a compiled regex matches
rule_matches_missing_regex_matches(cr, tx) ==
    LET rule == cr.rule
        text == ToLowercase(tx.description)
        pattern == ToLowercase(rule.pattern)
    IN  IF rule.amount_min_cents /= <<>> /\ tx.amount_cents < rule.amount_min_cents[1]
        THEN FALSE
        ELSE IF rule.amount_max_cents /= <<>> /\ tx.amount_cents > rule.amount_max_cents[1]
        THEN FALSE
        ELSE CASE rule.match_type = <<"Contains">> -> Contains(text, pattern)
               [] rule.match_type = <<"Exact">> -> text = pattern
               [] rule.match_type = <<"Regex">> ->
                      \/ cr.compiled_regex = <<>>
                      \/ RegexIsMatch(cr.compiled_regex[1], tx.description)
               [] OTHER -> RatGeq(fuzzy_score(text, pattern), rule.match_type[2])

rule_matches(cr, tx) ==
    LET rule == cr.rule
        text == ToLowercase(tx.description)
        pattern == ToLowercase(rule.pattern)
    IN  IF rule.amount_min_cents /= <<>> /\ tx.amount_cents < rule.amount_min_cents[1]
        THEN FALSE
        ELSE IF rule.amount_max_cents /= <<>> /\ tx.amount_cents > rule.amount_max_cents[1]
        THEN FALSE
        ELSE CASE rule.match_type = <<"Contains">> -> Contains(text, pattern)
               [] rule.match_type = <<"Exact">> -> text = pattern
               [] rule.match_type = <<"Regex">> ->
                      /\ cr.compiled_regex /= <<>>
                      /\ RegexIsMatch(cr.compiled_regex[1], tx.description)
               [] OTHER -> RatGeq(fuzzy_score(text, pattern), rule.match_type[2])

\* Iterator::find over the sorted rules, mapped to the rule
RECURSIVE find_matching_rule(_, _)
find_matching_rule(crs, tx) ==
    IF crs = <<>> THEN <<>>
    ELSE IF rule_matches(Head(crs), tx) THEN <<Head(crs).rule>>
    ELSE find_matching_rule(Tail(crs), tx)

\* apply_rules numbering the returned pairs instead of the inputs
apply_rules_renumbered(crs, txs) ==
    LET found == SelectSeq([k \in 1..Len(txs) |-> find_matching_rule(crs, txs[k])],
                           LAMBDA r : r /= <<>>)
    IN  [p \in 1..Len(found) |-> <<p - 1, found[p][1]>>]

\* enumerate (indices from 0), filter_map over find_matching_rule, collect
apply_rules(crs, txs) ==
    LET RECURSIVE From(_)
        From(idx) ==
            IF idx >= Len(txs) THEN <<>>
            ELSE LET r == find_matching_rule(crs, txs[idx + 1])
                 IN  (IF r = <<>> THEN <<>> ELSE << <<idx, r[1]>> >>) \o From(idx + 1)
    IN  From(0)

-----------------------------------------------------------------------------
(* csv.rs: amounts *)

Digit == <<"0", "1", "2", "3", "4", "5", "6", "7", "8", "9">>

IsDigit(c) == \E k \in 1..10 : Digit[k] = c

DigitVal(c) == (CHOOSE k \in 1..10 : Digit[k] = c) - 1

\* the value of a string of decimal digits
RECURSIVE ToNat(_)
ToNat(ds) ==
    IF ds = <<>> THEN 0
    ELSE 10 * ToNat(SubSeq(ds, 1, Len(ds) - 1)) + DigitVal(ds[Len(ds)])

RECURSIVE Pow10(_)
Pow10(n) == IF n = 0 THEN 1 ELSE 10 * Pow10(n - 1)

\* str::trim
RECURSIVE TrimStart(_)
TrimStart(s) == IF s /= <<>> /\ Head(s) = " " THEN TrimStart(Tail(s)) ELSE s

RECURSIVE TrimEnd(_)
TrimEnd(s) ==
    IF s /= <<>> /\ s[Len(s)] = " " THEN TrimEnd(SubSeq(s, 1, Len(s) - 1)) ELSE s

Trim(s) == TrimEnd(TrimStart(s))

\* str::replace(chars, "")
Remove(s, chars) == SelectSeq(s, LAMBDA c : c \notin chars)

\* Decimal::from_str: an optional sign, digits with at most one point and at
\* least one digit; None otherwise
DecimalFromStr(s) ==
    LET signed == s /= <<>> /\ s[1] \in {"-", "+"}
        body == IF signed THEN Tail(s) ELSE s
        points == {k \in 1..Len(body) : body[k] = "."}
        digits == SelectSeq(body, IsDigit)
    IN  IF \/ Cardinality(points) > 1
           \/ digits = <<>>
           \/ \E k \in 1..Len(body) : ~IsDigit(body[k]) /\ body[k] /= "."
        THEN <<>>
        ELSE << [negative |-> signed /\ s[1] = "-",
                 mantissa |-> ToNat(digits),
                 scale |-> IF points = {} THEN 0
                           ELSE Len(body) - (CHOOSE k \in points : TRUE)] >>

\* Decimal::round on num / den >= 0: to the nearest integer, a tie to the even one
RoundHalfEven(num, den) ==
    LET q == num \div den
        r == num % den
    IN  IF 2 * r < den THEN q
        ELSE IF 2 * r > den THEN q + 1
        ELSE IF q % 2 = 0 THEN q ELSE q + 1

\* parse_amount rounding the dollars before the multiplication by 100
parse_amount_round_first(text) ==
    LET s == Trim(text)
        parens == s /= <<>> /\ s[1] = "(" /\ s[Len(s)] = ")"
        inner == IF parens THEN SubSeq(s, 2, Len(s) - 1) ELSE s
        stripped == Remove(inner, {",", "$", " "})
        dec == DecimalFromStr(stripped)
    IN  IF dec = <<>> THEN <<"Err", "InvalidAmount">>
        ELSE LET magnitude == RoundHalfEven(dec[1].mantissa, Pow10(dec[1].scale)) * 100
             IN  <<"Ok", IF dec[1].negative /= parens THEN -magnitude ELSE magnitude>>

\* Result<i64, CsvError>: <<"Ok", cents>> or <<"Err", "InvalidAmount">>
parse_amount(text) ==
    LET s == Trim(text)
        parens == s /= <<>> /\ s[1] = "(" /\ s[Len(s)] = ")"
        inner == IF parens THEN SubSeq(s, 2, Len(s) - 1) ELSE s
        stripped == Remove(inner, {",", "$", " "})
        dec == DecimalFromStr(stripped)
    IN  IF dec = <<>> THEN <<"Err", "InvalidAmount">>
        ELSE LET magnitude == RoundHalfEven(dec[1].mantissa * 100, Pow10(dec[1].scale))
             IN  <<"Ok", IF dec[1].negative /= parens THEN -magnitude ELSE magnitude>>

-----------------------------------------------------------------------------
(* csv.rs: dates *)

\* the digits at the start of s, at most width of them
RECURSIVE LeadingDigits(_, _)
LeadingDigits(s, width) ==
    IF width = 0 \/ s = <<>> \/ ~IsDigit(Head(s)) THEN <<>>
    ELSE <<Head(s)>> \o LeadingDigits(Tail(s), width - 1)

IsNumericItem(item) == item \in {"%Y", "%m", "%d"}

\* chrono's parser over the items of a format: a numeric item skips leading
\* spaces and takes one to four (%Y without sign) or one to two (%m, %d)
\* digits, a signed year any number; a literal must be next in the input;
\* input left over is an error
RECURSIVE ParseItems(_, _, _)
ParseItems(s, items, parsed) ==
    IF items = <<>> THEN (IF s = <<>> THEN <<parsed>> ELSE <<>>)
    ELSE IF IsNumericItem(Head(items))
    THEN LET t == TrimStart(s)
             signed == Head(items) = "%Y" /\ t /= <<>> /\ t[1] \in {"-", "+"}
             u == IF signed THEN Tail(t) ELSE t
             width == IF signed THEN Len(u) ELSE IF Head(items) = "%Y" THEN 4 ELSE 2
             ds == LeadingDigits(u, width)
             v == IF signed /\ t[1] = "-" THEN 0 - ToNat(ds) ELSE ToNat(ds)
             rest == SubSeq(u, Len(ds) + 1, Len(u))
         IN  IF ds = <<>> THEN <<>>
             ELSE CASE Head(items) = "%Y" ->
                           ParseItems(rest, Tail(items), [parsed EXCEPT !.year = v])
                    [] Head(items) = "%m" ->
                           ParseItems(rest, Tail(items), [parsed EXCEPT !.month = v])
                    [] OTHER ->
                           ParseItems(rest, Tail(items), [parsed EXCEPT !.day = v])
    ELSE IF s /= <<>> /\ Head(s) = Head(items)
    THEN ParseItems(Tail(s), Tail(items), parsed)
    ELSE <<>>

IsLeapYear(y) == (y % 4 = 0 /\ y % 100 /= 0) \/ y % 400 = 0

DaysInMonth(y, m) ==
    CASE m \in {4, 6, 9, 11} -> 30
      [] m = 2 -> IF IsLeapYear(y) THEN 29 ELSE 28
      [] OTHER -> 31

\* NaiveDate::from_ymd_opt
IsDate(d) == d.month \in 1..12 /\ d.day \in 1..DaysInMonth(d.year, d.month)

\* NaiveDate::parse_from_str: Some([year, month, day]) or None
parse_from_str(s, format) ==
    LET parsed == ParseItems(s, format, [year |-> 0, month |-> 0, day |-> 0])
    IN  IF parsed /= <<>> /\ IsDate(parsed[1]) THEN parsed ELSE <<>>

\* the formats tried after the configured one, in this order
Fallbacks ==
    << <<"%m", "/", "%d", "/", "%Y">>, <<"%d", "/", "%m", "/", "%Y">>,
       <<"%Y", "/", "%m", "/", "%d">>, <<"%m", "-", "%d", "-", "%Y">>,
       <<"%d", "-", "%m", "-", "%Y">>, <<"%Y", "-", "%m", "-", "%d">> >>

\* Iterator over the formats: the first that parses
RECURSIVE FirstParse(_, _)
FirstParse(s, formats) ==
    IF formats = <<>> THEN <<>>
    ELSE IF parse_from_str(s, Head(formats)) /= <<>> THEN parse_from_str(s, Head(formats))
    ELSE FirstParse(s, Tail(formats))

\* parse_date that tries the fallback list before the configured format
parse_date_fallbacks_first(text, format) ==
    LET s == Trim(text)
        date == FirstParse(s, Fallbacks \o <<format>>)
    IN  IF date /= <<>> THEN <<"Ok", date[1]>> ELSE <<"Err", "InvalidDate">>

\* Result<NaiveDate, CsvError>: <<"Ok", date>> or <<"Err", "InvalidDate">>
parse_date(text, format) ==
    LET s == Trim(text)
        date == FirstParse(s, <<format>> \o Fallbacks)
    IN  IF date /= <<>> THEN <<"Ok", date[1]>> ELSE <<"Err", "InvalidDate">>

-----------------------------------------------------------------------------
(* csv.rs: CsvImporter::parse_profile and import_csv *)

\* StringRecord::get with a zero-based index
Get(record, col) == IF col < Len(record) THEN <<record[col + 1]>> ELSE <<>>

\* Option::unwrap_or_default on a field
OrEmpty(field) == IF field = <<>> THEN <<>> ELSE field[1]

\* a debit or credit cell: None when absent or blank, else the parse result
\* in an Option: <<>>, or << <<"Ok", cents>> >>, or << <<"Err", "InvalidAmount">> >>
SideAmount(record, col) ==
    LET field == Get(record, col)
    IN  IF field = <<>> \/ Trim(field[1]) = <<>> THEN <<>> ELSE <<parse_amount(field[1])>>

\* the match on (debit, credit) with a credit added instead of subtracted
debit_credit_amount_credit_positive(d, c) ==
    CASE d /= <<>> /\ c = <<>> -> d[1]
      [] d = <<>> /\ c /= <<>> -> c[1]
      [] d = <<>> /\ c = <<>> -> 0
      [] OTHER -> 0

\* the match on (debit, credit) giving debit minus credit when both are there
debit_credit_amount_net(d, c) ==
    CASE d /= <<>> /\ c = <<>> -> d[1]
      [] d = <<>> /\ c /= <<>> -> 0 - c[1]
      [] d = <<>> /\ c = <<>> -> 0
      [] OTHER -> d[1] - c[1]

\* the match on (debit, credit), both Option<i64>
debit_credit_amount(d, c) ==
    CASE d /= <<>> /\ c = <<>> -> d[1]
      [] d = <<>> /\ c /= <<>> -> 0 - c[1]
      [] d = <<>> /\ c = <<>> -> 0
      [] OTHER -> 0

\* the body of the loop over the records: <<"Skip">> for continue,
\* <<"Err", kind>> for an early return, <<"Push", transaction>> otherwise
Record(record, mapping) ==
    IF record = <<>> THEN <<"Skip">>
    ELSE IF mapping.date_column = <<>> THEN <<"Skip">>
    ELSE IF Get(record, mapping.date_column[1]) = <<>> THEN <<"Err", "MissingColumn">>
    ELSE LET date == parse_date(Get(record, mapping.date_column[1])[1], mapping.date_format)
             description == IF mapping.description_column /= <<>>
                            THEN OrEmpty(Get(record, mapping.description_column[1]))
                            ELSE <<>>
             memo_field == IF mapping.memo_column /= <<>>
                           THEN Get(record, mapping.memo_column[1])
                           ELSE <<>>
             memo == IF memo_field /= <<>> /\ memo_field[1] /= <<>> THEN memo_field ELSE <<>>
         IN  IF date[1] = "Err" THEN date
             ELSE IF mapping.amount_column /= <<>>
             THEN LET amt == parse_amount(OrEmpty(Get(record, mapping.amount_column[1])))
                  IN  IF amt[1] = "Err" THEN amt
                      ELSE <<"Push", [date |-> date[2], description |-> description,
                                      amount |-> amt[2], memo |-> memo,
                                      debit |-> <<>>, credit |-> <<>>]>>
             ELSE IF mapping.debit_column /= <<>> /\ mapping.credit_column /= <<>>
             THEN LET d == SideAmount(record, mapping.debit_column[1])
                      c == SideAmount(record, mapping.credit_column[1])
                  IN  IF d /= <<>> /\ d[1][1] = "Err" THEN d[1]
                      ELSE IF c /= <<>> /\ c[1][1] = "Err" THEN c[1]
                      ELSE LET debit == IF d = <<>> THEN <<>> ELSE <<d[1][2]>>
                               credit == IF c = <<>> THEN <<>> ELSE <<c[1][2]>>
                           IN  <<"Push", [date |-> date[2], description |-> description,
                                          amount |-> debit_credit_amount(debit, credit),
                                          memo |-> memo,
                                          debit |-> debit, credit |-> credit]>>
             ELSE <<"Skip">>

\* the loop of parse_profile dropping a failing record and going on
RECURSIVE Loop_skips_failures(_, _, _, _)
Loop_skips_failures(records, mapping, k, transactions) ==
    IF k > Len(records)
    THEN IF transactions = <<>> THEN <<"Err", "NoDataRows">> ELSE <<"Ok", transactions>>
    ELSE LET step == Record(records[k], mapping)
         IN  Loop_skips_failures(records, mapping, k + 1,
                                 IF step[1] = "Push" THEN Append(transactions, step[2])
                                 ELSE transactions)

\* the loop of parse_profile without the final test for an empty list
RECURSIVE Loop_allows_empty(_, _, _, _)
Loop_allows_empty(records, mapping, k, transactions) ==
    IF k > Len(records) THEN <<"Ok", transactions>>
    ELSE LET step == Record(records[k], mapping)
         IN  IF step[1] = "Err" THEN step
             ELSE Loop_allows_empty(records, mapping, k + 1,
                                    IF step[1] = "Push" THEN Append(transactions, step[2])
                                    ELSE transactions)

\* the loop of parse_profile passing over a record whose date field is
\* missing or does not parse, instead of returning the error
RECURSIVE Loop_drops_undated(_, _, _, _)
Loop_drops_undated(records, mapping, k, transactions) ==
    IF k > Len(records)
    THEN IF transactions = <<>> THEN <<"Err", "NoDataRows">> ELSE <<"Ok", transactions>>
    ELSE LET step == Record(records[k], mapping)
         IN  IF step[1] = "Err" /\ step[2] = "InvalidAmount" THEN step
             ELSE Loop_drops_undated(records, mapping, k + 1,
                                     IF step[1] = "Push" THEN Append(transactions, step[2])
                                     ELSE transactions)

\* the loop over the records from the k-th on and the code after it:
\* <<"Ok", transactions>> or <<"Err", kind>>
RECURSIVE Loop(_, _, _, _)
Loop(records, mapping, k, transactions) ==
    IF k > Len(records)
    THEN IF transactions = <<>> THEN <<"Err", "NoDataRows">> ELSE <<"Ok", transactions>>
    ELSE LET step == Record(records[k], mapping)
         IN  IF step[1] = "Err" THEN step
             ELSE Loop(records, mapping, k + 1,
                       IF step[1] = "Push" THEN Append(transactions, step[2])
                       ELSE transactions)

parse_profile_skips_failures(records, mapping) ==
    Loop_skips_failures(records, mapping, 1, <<>>)

parse_profile_allows_empty(records, mapping) == Loop_allows_empty(records, mapping, 1, <<>>)

parse_profile_drops_undated(records, mapping) == Loop_drops_undated(records, mapping, 1, <<>>)

\* Result<Vec<CsvTransaction>, CsvError>
parse_profile(records, mapping) == Loop(records, mapping, 1, <<>>)

\* csv::Reader::records under has_headers: the first row is not a record
Records(rows, has_header) == IF has_header /\ rows /= <<>> THEN Tail(rows) ELSE rows

import_csv(rows, profile) == parse_profile(Records(rows, profile.has_header), profile.mapping)

-----------------------------------------------------------------------------
(* ofx.rs: dates and amounts *)

\* str::parse::<i32>: an optional sign and at least one digit, nothing else
ParseI32(s) ==
    LET signed == s /= <<>> /\ s[1] \in {"-", "+"}
        ds == IF signed THEN Tail(s) ELSE s
    IN  IF ds = <<>> \/ \E k \in 1..Len(ds) : ~IsDigit(ds[k]) THEN <<>>
        ELSE <<IF signed /\ s[1] = "-" THEN 0 - ToNat(ds) ELSE ToNat(ds)>>

\* str::parse::<u32>: an optional '+' and at least one digit, nothing else
ParseU32(s) ==
    LET ds == IF s /= <<>> /\ s[1] = "+" THEN Tail(s) ELSE s
    IN  IF ds = <<>> \/ \E k \in 1..Len(ds) : ~IsDigit(ds[k]) THEN <<>>
        ELSE <<ToNat(ds)>>

\* DateTime::parse_from_rfc3339 then date_naive, for a text of the shape
\* YYYY-MM-DDThh:mm:ss followed by an offset; None for any other text
parse_from_rfc3339(s) ==
    IF /\ Len(s) >= 20
       /\ \A k \in {1, 2, 3, 4, 6, 7, 9, 10, 12, 13, 15, 16, 18, 19} : IsDigit(s[k])
       /\ s[5] = "-" /\ s[8] = "-" /\ s[11] = "T" /\ s[14] = ":" /\ s[17] = ":"
       /\ IsDate([year |-> ToNat(SubSeq(s, 1, 4)), month |-> ToNat(SubSeq(s, 6, 7)),
                  day |-> ToNat(SubSeq(s, 9, 10))])
    THEN <<[year |-> ToNat(SubSeq(s, 1, 4)), month |-> ToNat(SubSeq(s, 6, 7)),
            day |-> ToNat(SubSeq(s, 9, 10))]>>
    ELSE <<>>

\* Option<NaiveDate>
parse_ofx_date(text) ==
    LET s == Trim(text)
        y == ParseI32(SubSeq(s, 1, 4))
        m == ParseU32(SubSeq(s, 5, 6))
        d == ParseU32(SubSeq(s, 7, 8))
    IN  IF Len(s) >= 8 /\ (y = <<>> \/ m = <<>> \/ d = <<>>) THEN <<>>
        ELSE IF Len(s) >= 8 /\ IsDate([year |-> y[1], month |-> m[1], day |-> d[1]])
        THEN <<[year |-> y[1], month |-> m[1], day |-> d[1]]>>
        ELSE parse_from_rfc3339(s)

\* Option<i64>
parse_ofx_amount(text) ==
    LET s == Remove(Trim(text), {","})
        dec == DecimalFromStr(s)
    IN  IF dec = <<>> THEN <<>>
        ELSE LET magnitude == RoundHalfEven(dec[1].mantissa * 100, Pow10(dec[1].scale))
             IN  <<IF dec[1].negative THEN 0 - magnitude ELSE magnitude>>

-----------------------------------------------------------------------------
(* ofx.rs: OfxParser::parse, one line at a time *)

\* str::to_uppercase on a tag name
ToUpperTag(name) == IF name = "stmttrn" THEN "STMTTRN" ELSE name

\* a trimmed, non-empty line is [lt, name, gt, text]: whether it starts with
\* '<', the text up to the first '>', whether there is a '>', the text after it.
\* strip_prefix and split_once give the tag name and the value, None for a
\* line that is no tag
Lex(ln) ==
    IF ~ln.lt THEN <<>>
    ELSE <<[tag_name |-> ln.name, value |-> IF ln.gt THEN <<Trim(ln.text)>> ELSE <<>>]>>

\* BuildingTrx::default()
DefaultTrx ==
    [fit_id |-> <<>>, date |-> <<>>, amount |-> <<>>, memo |-> <<>>, name |-> <<>>,
     check_number |-> <<>>]

\* the OfxTransaction pushed for a BuildingTrx with a date
Emitted(trx) ==
    [fit_id |-> IF trx.fit_id = <<>> THEN <<>> ELSE trx.fit_id[1],
     date |-> trx.date[1],
     amount |-> IF trx.amount = <<>> THEN 0 ELSE trx.amount[1],
     memo |-> trx.memo, name |-> trx.name, check_number |-> trx.check_number]

\* the inner match whose DTPOSTED arm keeps the earlier date when the new
\* value does not parse
Inner_keeps_date(trx, tag, value) ==
    IF value = <<>> THEN trx
    ELSE CASE tag = "FITID" -> [trx EXCEPT !.fit_id = value]
           [] tag = "DTPOSTED" ->
                  [trx EXCEPT !.date = IF parse_ofx_date(value[1]) = <<>> THEN @
                                       ELSE parse_ofx_date(value[1])]
           [] tag = "TRNAMT" -> [trx EXCEPT !.amount = parse_ofx_amount(value[1])]
           [] tag = "MEMO" -> [trx EXCEPT !.memo = value]
           [] tag = "NAME" -> [trx EXCEPT !.name = value]
           [] tag = "CHECKNUM" -> [trx EXCEPT !.check_number = value]
           [] OTHER -> trx

\* the arms of the inner match, on the transaction being built
Inner(trx, tag, value) ==
    IF value = <<>> THEN trx
    ELSE CASE tag = "FITID" -> [trx EXCEPT !.fit_id = value]
           [] tag = "DTPOSTED" -> [trx EXCEPT !.date = parse_ofx_date(value[1])]
           [] tag = "TRNAMT" -> [trx EXCEPT !.amount = parse_ofx_amount(value[1])]
           [] tag = "MEMO" -> [trx EXCEPT !.memo = value]
           [] tag = "NAME" -> [trx EXCEPT !.name = value]
           [] tag = "CHECKNUM" -> [trx EXCEPT !.check_number = value]
           [] OTHER -> trx

\* the locals of parse as one record, and the outer match on the tag
Locals ==
    [account |-> account, start_date |-> start_date, end_date |-> end_date,
     transactions |-> ofx_transactions, currency |-> currency,
     in_stmttrn |-> in_stmttrn, current_trx |-> current_trx]

\* the outer match that leaves a closed block open
Outer_stays_open(st, tag, value) ==
    CASE tag = "ACCTID" ->
             IF value = <<>> THEN st ELSE [st EXCEPT !.account.account_id = value[1]]
      [] tag = "BANKID" ->
             IF value = <<>> THEN st ELSE [st EXCEPT !.account.bank_id = value]
      [] tag = "ACCTTYPE" ->
             IF value = <<>> THEN st ELSE [st EXCEPT !.account.account_type = value]
      [] tag = "DTSTART" ->
             IF value = <<>> THEN st ELSE [st EXCEPT !.start_date = parse_ofx_date(value[1])]
      [] tag = "DTEND" ->
             IF value = <<>> THEN st ELSE [st EXCEPT !.end_date = parse_ofx_date(value[1])]
      [] tag = "CURDEF" ->
             IF value = <<>> THEN st ELSE [st EXCEPT !.currency = value]
      [] tag = "STMTTRN" ->
             [st EXCEPT !.in_stmttrn = TRUE, !.current_trx = <<DefaultTrx>>]
      [] tag = "/STMTTRN" ->
             [st EXCEPT !.transactions =
                            IF st.current_trx /= <<>> /\ st.current_trx[1].date /= <<>>
                            THEN Append(@, Emitted(st.current_trx[1]))
                            ELSE @]
      [] OTHER ->
             IF st.in_stmttrn /\ st.current_trx /= <<>>
             THEN [st EXCEPT !.current_trx = <<Inner(st.current_trx[1], tag, value)>>]
             ELSE st

\* the outer match whose STMTTRN arm keeps an accumulator that is already there
Outer_keeps_pending(st, tag, value) ==
    CASE tag = "ACCTID" ->
             IF value = <<>> THEN st ELSE [st EXCEPT !.account.account_id = value[1]]
      [] tag = "BANKID" ->
             IF value = <<>> THEN st ELSE [st EXCEPT !.account.bank_id = value]
      [] tag = "ACCTTYPE" ->
             IF value = <<>> THEN st ELSE [st EXCEPT !.account.account_type = value]
      [] tag = "DTSTART" ->
             IF value = <<>> THEN st ELSE [st EXCEPT !.start_date = parse_ofx_date(value[1])]
      [] tag = "DTEND" ->
             IF value = <<>> THEN st ELSE [st EXCEPT !.end_date = parse_ofx_date(value[1])]
      [] tag = "CURDEF" ->
             IF value = <<>> THEN st ELSE [st EXCEPT !.currency = value]
      [] tag = "STMTTRN" ->
             [st EXCEPT !.in_stmttrn = TRUE,
                        !.current_trx = IF @ = <<>> THEN <<DefaultTrx>> ELSE @]
      [] tag = "/STMTTRN" ->
             [st EXCEPT !.transactions =
                            IF st.current_trx /= <<>> /\ st.current_trx[1].date /= <<>>
                            THEN Append(@, Emitted(st.current_trx[1]))
                            ELSE @,
                        !.current_trx = <<>>,
                        !.in_stmttrn = FALSE]
      [] OTHER ->
             IF st.in_stmttrn /\ st.current_trx /= <<>>
             THEN [st EXCEPT !.current_trx = <<Inner(st.current_trx[1], tag, value)>>]
             ELSE st

\* the outer match of the loop body, on the upper-cased tag name
Outer(st, tag, value) ==
    CASE tag = "ACCTID" ->
             IF value = <<>> THEN st ELSE [st EXCEPT !.account.account_id = value[1]]
      [] tag = "BANKID" ->
             IF value = <<>> THEN st ELSE [st EXCEPT !.account.bank_id = value]
      [] tag = "ACCTTYPE" ->
             IF value = <<>> THEN st ELSE [st EXCEPT !.account.account_type = value]
      [] tag = "DTSTART" ->
             IF value = <<>> THEN st ELSE [st EXCEPT !.start_date = parse_ofx_date(value[1])]
      [] tag = "DTEND" ->
             IF value = <<>> THEN st ELSE [st EXCEPT !.end_date = parse_ofx_date(value[1])]
      [] tag = "CURDEF" ->
             IF value = <<>> THEN st ELSE [st EXCEPT !.currency = value]
      [] tag = "STMTTRN" ->
             [st EXCEPT !.in_stmttrn = TRUE, !.current_trx = <<DefaultTrx>>]
      [] tag = "/STMTTRN" ->
             [st EXCEPT !.transactions =
                            IF st.current_trx /= <<>> /\ st.current_trx[1].date /= <<>>
                            THEN Append(@, Emitted(st.current_trx[1]))
                            ELSE @,
                        !.current_trx = <<>>,
                        !.in_stmttrn = FALSE]
      [] OTHER ->
             IF st.in_stmttrn /\ st.current_trx /= <<>>
             THEN [st EXCEPT !.current_trx = <<Inner(st.current_trx[1], tag, value)>>]
             ELSE st

\* one iteration of the loop over the lines
Step(st, ln) ==
    IF Lex(ln) = <<>> THEN st
    ELSE Outer(st, ToUpperTag(Lex(ln)[1].tag_name), Lex(ln)[1].value)

\* the code after the loop, without the test of the account id
Finish_ignores_account(st) ==
    IF st.start_date = <<>> THEN <<"Err", <<"MissingField", "DTSTART">> >>
    ELSE IF st.end_date = <<>> THEN <<"Err", <<"MissingField", "DTEND">> >>
    ELSE <<"Ok", [account |-> st.account, start_date |-> st.start_date[1],
                  end_date |-> st.end_date[1], transactions |-> st.transactions,
                  currency |-> st.currency]>>

\* the code after the loop: Result<OfxStatement, OfxError>
Finish(st) ==
    IF st.start_date = <<>> THEN <<"Err", <<"MissingField", "DTSTART">> >>
    ELSE IF st.end_date = <<>> THEN <<"Err", <<"MissingField", "DTEND">> >>
    ELSE IF st.account.account_id = <<>> THEN <<"Err", <<"MissingField", "ACCTID">> >>
    ELSE <<"Ok", [account |-> st.account, start_date |-> st.start_date[1],
                  end_date |-> st.end_date[1], transactions |-> st.transactions,
                  currency |-> st.currency]>>

-----------------------------------------------------------------------------
(* Inputs of the match engine and the duplicate detector *)

Days == {0, 1}

Amounts == {0, 1}

ImportedDescriptions == {<<"A", "-", "b">>, <<"c", "d">>}

ExistingDescriptions == {<<"a", " ", "b">>, <<"a", "b">>}

Windows == {-1, 0, 1}

Tolerances == {0, 1}

Thresholds == {Zero, <<3, 4>>, <<3, 2>>}

\* an imported statement line; the ledger entries lie around it
ImportedBodies == [date : {0}, description : ImportedDescriptions, amount_cents : {0}]

ExistingBodies == [date : Days, description : ExistingDescriptions, amount_cents : Amounts]

SeqsUpTo(S, n) == UNION {[1..k -> S] : k \in 0..n}

\* MatchableTransaction values; ids are unique within a list, as ledger keys are
WithIds(bodies, base) ==
    [k \in 1..Len(bodies) |->
        [id |-> base + k, date |-> bodies[k].date,
         description |-> bodies[k].description,
         amount_cents |-> bodies[k].amount_cents]]

Engines ==
    [date_window_days : Windows, fuzzy_threshold : Thresholds,
     amount_tolerance_cents : Tolerances]

NoEngine == [date_window_days |-> 0, fuzzy_threshold |-> Zero, amount_tolerance_cents |-> 0]

IdleDup ==
    /\ batch = <<>>
    /\ dup_args = [window_days |-> 0, threshold |-> Zero]
    /\ duplicates = <<>>

IdleMatch ==
    /\ engine = NoEngine
    /\ imported = <<>>
    /\ existing = <<>>
    /\ results = <<>>

IdleRules ==
    /\ rule_list = <<>>
    /\ rule_engine = <<>>
    /\ cat_tx = [date |-> 0, description |-> <<>>, amount_cents |-> 0, memo |-> <<>>]
    /\ found_rule = <<>>

IdleApply ==
    /\ cat_batch = <<>>
    /\ applied = <<>>

IdleSim ==
    /\ sim_a = <<>>
    /\ sim_b = <<>>
    /\ sim_out = <<>>

IdleAmount ==
    /\ amt_cents = 0
    /\ amt_style = <<>>
    /\ amt_text = <<>>
    /\ amt_parsed = <<>>

IdleCsv ==
    /\ csv_profile = <<>>
    /\ csv_rows = <<>>
    /\ csv_result = <<>>

\* OfxAccount as parse creates it
NoAccount == [account_id |-> <<>>, bank_id |-> <<>>, account_type |-> <<>>]

IdleOfx ==
    /\ account = NoAccount
    /\ start_date = <<>>
    /\ end_date = <<>>
    /\ ofx_transactions = <<>>
    /\ currency = <<>>
    /\ in_stmttrn = FALSE
    /\ current_trx = <<>>
    /\ last_line = <<>>
    /\ lines_read = 0
    /\ ofx_result = <<>>

IdleDate ==
    /\ date_text = <<>>
    /\ date_format = <<>>
    /\ date_parsed = <<>>

-----------------------------------------------------------------------------
(* AutoMatchEngine::find_matches as a call *)

InitMatch ==
    /\ pc = "ready"
    /\ engine \in Engines
    /\ \E bs \in SeqsUpTo(ImportedBodies, MaxImported) : imported = WithIds(bs, 0)
    /\ \E bs \in SeqsUpTo(ExistingBodies, MaxExisting) : existing = WithIds(bs, 100)
    /\ results = <<>>
    /\ IdleDup
    /\ IdleRules
    /\ IdleApply
    /\ IdleSim
    /\ IdleAmount
    /\ IdleCsv
    /\ IdleOfx
    /\ IdleDate

FindMatches ==
    /\ pc = "ready"
    /\ results' = find_matches(engine, imported, existing)
    /\ pc' = "done"
    /\ UNCHANGED <<engine, imported, existing, batch, dup_args, duplicates,
                   rule_list, rule_engine, cat_tx, found_rule>>
    /\ UNCHANGED <<apply_vars, sim_vars, amount_vars, csv_vars, ofx_vars, date_vars>>

NextMatch == FindMatches

SpecMatch == InitMatch /\ [][NextMatch]_vars

\* find_matches on one statement line whose description also occurs, letter
\* for letter, in the ledger, next to entries with an unrelated description
BestDescriptions == {<<"a", "b">>, <<"c", "d">>}

BestImportedBodies == [date : {0}, description : BestDescriptions, amount_cents : {0}]

BestExistingBodies == [date : Days, description : BestDescriptions, amount_cents : Amounts]

InitBest ==
    /\ pc = "ready"
    /\ engine \in Engines
    /\ \E b \in BestImportedBodies : imported = WithIds(<<b>>, 0)
    /\ \E bs \in SeqsUpTo(BestExistingBodies, MaxExisting) : existing = WithIds(bs, 100)
    /\ results = <<>>
    /\ IdleDup
    /\ IdleRules
    /\ IdleApply
    /\ IdleSim
    /\ IdleAmount
    /\ IdleCsv
    /\ IdleOfx
    /\ IdleDate

SpecBest == InitBest /\ [][NextMatch]_vars

-----------------------------------------------------------------------------
(* find_duplicates as a call *)

BatchDescriptions == {<<"A", "-", "b">>, <<"a", " ", "b">>, <<"a", "b">>}

BatchBodies == [date : Days, description : BatchDescriptions, amount_cents : Amounts]

DupThresholds == {<<2, 3>>, <<9, 10>>}

InitDup ==
    /\ pc = "ready"
    /\ \E bs \in SeqsUpTo(BatchBodies, MaxBatch) : batch = WithIds(bs, 0)
    /\ dup_args \in [window_days : Windows, threshold : DupThresholds]
    /\ duplicates = <<>>
    /\ IdleMatch
    /\ IdleRules
    /\ IdleApply
    /\ IdleSim
    /\ IdleAmount
    /\ IdleCsv
    /\ IdleOfx
    /\ IdleDate

FindDuplicates ==
    /\ pc = "ready"
    /\ duplicates' = find_duplicates(batch, dup_args.window_days, dup_args.threshold)
    /\ pc' = "done"
    /\ UNCHANGED <<engine, imported, existing, results, batch, dup_args,
                   rule_list, rule_engine, cat_tx, found_rule>>
    /\ UNCHANGED <<apply_vars, sim_vars, amount_vars, csv_vars, ofx_vars, date_vars>>

NextDup == FindDuplicates

SpecDup == InitDup /\ [][NextDup]_vars

-----------------------------------------------------------------------------
(* CategoryRuleEngine: construction, then one lookup *)

Priorities == {1, 2}

RuleShapes ==
    { [pattern |-> <<"a", "b">>, match_type |-> <<"Contains">>,
       amount_min_cents |-> <<>>, amount_max_cents |-> <<>>],
      [pattern |-> <<"A", "B">>, match_type |-> <<"Exact">>,
       amount_min_cents |-> <<>>, amount_max_cents |-> <<>>],
      [pattern |-> <<"^", "A">>, match_type |-> <<"Regex">>,
       amount_min_cents |-> <<>>, amount_max_cents |-> <<>>],
      [pattern |-> <<"(", "A">>, match_type |-> <<"Regex">>,
       amount_min_cents |-> <<>>, amount_max_cents |-> <<>>],
      [pattern |-> <<"a", "b">>, match_type |-> <<"Fuzzy", <<1, 2>> >>,
       amount_min_cents |-> <<>>, amount_max_cents |-> <<>>],
      [pattern |-> <<"b">>, match_type |-> <<"Contains">>,
       amount_min_cents |-> <<1>>, amount_max_cents |-> <<>>],
      [pattern |-> <<"b">>, match_type |-> <<"Contains">>,
       amount_min_cents |-> <<>>, amount_max_cents |-> <<0>>] }

RuleBodies == [shape : RuleShapes, priority : Priorities]

\* CategoryRule values; the name and the account code tell the rules apart
WithNames(bodies) ==
    [k \in 1..Len(bodies) |->
        [name |-> k, priority |-> bodies[k].priority,
         pattern |-> bodies[k].shape.pattern,
         match_type |-> bodies[k].shape.match_type,
         account_code |-> 5000 + k,
         amount_min_cents |-> bodies[k].shape.amount_min_cents,
         amount_max_cents |-> bodies[k].shape.amount_max_cents]]

CatDescriptions == {<<"A", "b">>, <<"a", "b", "c">>, <<"c", "d">>}

\* CategorizableTransaction values (the memo is never read by the engine)
CatTransactions == [date : {0}, description : CatDescriptions, amount_cents : Amounts, memo : {<<>>}]

InitRules ==
    /\ pc = "ready"
    /\ \E bs \in SeqsUpTo(RuleBodies, MaxRules) : rule_list = WithNames(bs)
    /\ cat_tx \in CatTransactions
    /\ rule_engine = <<>>
    /\ found_rule = <<>>
    /\ IdleMatch
    /\ IdleDup
    /\ IdleApply
    /\ IdleSim
    /\ IdleAmount
    /\ IdleCsv
    /\ IdleOfx
    /\ IdleDate

NewEngine ==
    /\ pc = "ready"
    /\ rule_engine' = new_engine(rule_list)
    /\ pc' = "built"
    /\ UNCHANGED <<engine, imported, existing, results, batch, dup_args, duplicates,
                   rule_list, cat_tx, found_rule>>
    /\ UNCHANGED <<apply_vars, sim_vars, amount_vars, csv_vars, ofx_vars, date_vars>>

FindMatchingRule ==
    /\ pc = "built"
    /\ found_rule' = find_matching_rule(rule_engine, cat_tx)
    /\ pc' = "done"
    /\ UNCHANGED <<engine, imported, existing, results, batch, dup_args, duplicates,
                   rule_list, rule_engine, cat_tx>>
    /\ UNCHANGED <<apply_vars, sim_vars, amount_vars, csv_vars, ofx_vars, date_vars>>

NextRules == NewEngine \/ FindMatchingRule

SpecRules == InitRules /\ [][NextRules]_vars

-----------------------------------------------------------------------------
(* CategoryRuleEngine: construction, then apply_rules over a batch *)

ApplyRuleBodies == {b \in RuleBodies : b.shape.match_type = <<"Contains">>}

ApplyTransactions == {tx \in CatTransactions : tx.description # <<"a", "b", "c">>}

InitApply ==
    /\ pc = "ready"
    /\ \E bs \in SeqsUpTo(ApplyRuleBodies, MaxApplyRules) : rule_list = WithNames(bs)
    /\ cat_batch \in SeqsUpTo(ApplyTransactions, MaxCatBatch)
    /\ rule_engine = <<>>
    /\ applied = <<>>
    /\ cat_tx = [date |-> 0, description |-> <<>>, amount_cents |-> 0, memo |-> <<>>]
    /\ found_rule = <<>>
    /\ IdleMatch
    /\ IdleDup
    /\ IdleSim
    /\ IdleAmount
    /\ IdleCsv
    /\ IdleOfx
    /\ IdleDate

ApplyRules ==
    /\ pc = "built"
    /\ applied' = apply_rules(rule_engine, cat_batch)
    /\ pc' = "applied"
    /\ UNCHANGED <<engine, imported, existing, results, batch, dup_args, duplicates,
                   rule_list, rule_engine, cat_tx, found_rule, cat_batch>>
    /\ UNCHANGED <<sim_vars, amount_vars, csv_vars, ofx_vars, date_vars>>

NextApply == NewEngine \/ ApplyRules

SpecApply == InitApply /\ [][NextApply]_vars

-----------------------------------------------------------------------------
(* The two normalized similarities applied to a pair of strings *)

SimChars == {"a", "b", "A", " "}

SimStrings == SeqsUpTo(SimChars, MaxSimLen)

InitSim ==
    /\ pc = "ready"
    /\ sim_a \in SimStrings
    /\ sim_b \in SimStrings
    /\ sim_out = <<>>
    /\ IdleMatch
    /\ IdleDup
    /\ IdleRules
    /\ IdleApply
    /\ IdleAmount
    /\ IdleCsv
    /\ IdleOfx
    /\ IdleDate

Similarity ==
    /\ pc = "ready"
    /\ sim_out' = [description_ab |-> description_similarity(sim_a, sim_b),
                   description_ba |-> description_similarity(sim_b, sim_a),
                   description_aa |-> description_similarity(sim_a, sim_a),
                   fuzzy_ab |-> fuzzy_score(sim_a, sim_b),
                   fuzzy_ba |-> fuzzy_score(sim_b, sim_a),
                   fuzzy_aa |-> fuzzy_score(sim_a, sim_a)]
    /\ pc' = "done"
    /\ UNCHANGED <<engine, imported, existing, results, batch, dup_args, duplicates,
                   rule_list, rule_engine, cat_tx, found_rule, sim_a, sim_b>>
    /\ UNCHANGED <<apply_vars, amount_vars, csv_vars, ofx_vars, date_vars>>

NextSim == Similarity

SpecSim == InitSim /\ [][NextSim]_vars

\* levenshtein_distance as a call, in both argument orders
Distance ==
    /\ pc = "ready"
    /\ sim_out' = [distance_ab |-> levenshtein_distance(sim_a, sim_b),
                   distance_ba |-> levenshtein_distance(sim_b, sim_a)]
    /\ pc' = "done"
    /\ UNCHANGED <<engine, imported, existing, results, batch, dup_args, duplicates,
                   rule_list, rule_engine, cat_tx, found_rule, sim_a, sim_b>>
    /\ UNCHANGED <<apply_vars, amount_vars, csv_vars, ofx_vars, date_vars>>

NextLev == Distance

SpecLev == InitSim /\ [][NextLev]_vars

-----------------------------------------------------------------------------
(* parse_amount applied to written cents values *)

\* the decimal digits of a natural number
RECURSIVE DigitsOf(_)
DigitsOf(n) ==
    IF n < 10 THEN <<Digit[n + 1]>>
    ELSE Append(DigitsOf(n \div 10), Digit[(n % 10) + 1])

\* a comma before every group of three digits, as in "1,234"
RECURSIVE Grouped(_)
Grouped(ds) ==
    IF Len(ds) <= 3 THEN ds
    ELSE Grouped(SubSeq(ds, 1, Len(ds) - 3)) \o <<",">> \o SubSeq(ds, Len(ds) - 2, Len(ds))

\* '$', '-', the dollars, '.', two digits of cents
Written(cents, style) ==
    LET dollars == DigitsOf(Abs(cents) \div 100)
    IN  (IF style.spaces THEN <<" ">> ELSE <<>>)
        \o (IF style.dollar THEN <<"$">> ELSE <<>>)
        \o (IF style.spaces THEN <<" ">> ELSE <<>>)
        \o (IF cents < 0 THEN <<"-">> ELSE <<>>)
        \o (IF style.commas THEN Grouped(dollars) ELSE dollars)
        \o <<".", Digit[((Abs(cents) % 100) \div 10) + 1], Digit[(Abs(cents) % 10) + 1]>>
        \o (IF style.spaces THEN <<" ">> ELSE <<>>)

AmountStyles == [dollar : BOOLEAN, commas : BOOLEAN, spaces : BOOLEAN]

LargeCents == {99999, 100000, 123456, -123456, 10000000}

InitAmount ==
    /\ pc = "ready"
    /\ amt_cents \in (-MaxCents..MaxCents) \cup LargeCents
    /\ amt_style \in AmountStyles
    /\ amt_text = <<>>
    /\ amt_parsed = <<>>
    /\ IdleMatch
    /\ IdleDup
    /\ IdleRules
    /\ IdleApply
    /\ IdleSim
    /\ IdleCsv
    /\ IdleOfx
    /\ IdleDate

ParseAmount ==
    /\ pc = "ready"
    /\ amt_text' = Written(amt_cents, amt_style)
    /\ amt_parsed' = parse_amount(Written(amt_cents, amt_style))
    /\ pc' = "done"
    /\ UNCHANGED <<engine, imported, existing, results, batch, dup_args, duplicates,
                   rule_list, rule_engine, cat_tx, found_rule, amt_cents, amt_style>>
    /\ UNCHANGED <<apply_vars, sim_vars, csv_vars, ofx_vars, date_vars>>

NextAmount == ParseAmount

SpecAmount == InitAmount /\ [][NextAmount]_vars

-----------------------------------------------------------------------------
(* import_csv as a call *)

IsoFormat == <<"%Y", "-", "%m", "-", "%d">>

\* "2024-01-15", "1/2/2024" and an empty cell
DateCells ==
    { <<"2", "0", "2", "4", "-", "0", "1", "-", "1", "5">>,
      <<"1", "/", "2", "/", "2", "0", "2", "4">>,
      <<>> }

\* the amount, debit and credit cells of a row
MoneyCells ==
    { << <<"5", "0", ".", "0", "0">>, <<"5", "0", ".", "0", "0">>, <<>> >>,
      << <<"-", "1", "0", "0", ".", "0", "0">>, <<>>, <<"1", "0", "0", ".", "0", "0">> >>,
      << <<"0">>, <<" ">>, <<>> >>,
      << <<"x">>, <<"x">>, <<>> >>,
      << <<"1", ".", "5", "0">>, <<"5", "0", ".", "0", "0">>, <<"1", "0", "0", ".", "0", "0">> >> }

RowBodies == [date : DateCells, money : MoneyCells]

\* rows of five fields: date, description, amount, debit, credit; the
\* description tells the rows apart
WithLabels(bodies) ==
    [k \in 1..Len(bodies) |->
        <<bodies[k].date, <<"r", Digit[k + 1]>>,
          bodies[k].money[1], bodies[k].money[2], bodies[k].money[3]>>]

\* amount column; debit and credit; debit alone; all three; debit with a
\* credit index beyond the row
AmountSources ==
    { [amount_column |-> <<2>>, debit_column |-> <<>>, credit_column |-> <<>>],
      [amount_column |-> <<>>, debit_column |-> <<3>>, credit_column |-> <<4>>],
      [amount_column |-> <<>>, debit_column |-> <<3>>, credit_column |-> <<>>],
      [amount_column |-> <<2>>, debit_column |-> <<3>>, credit_column |-> <<4>>],
      [amount_column |-> <<>>, debit_column |-> <<3>>, credit_column |-> <<5>>] }

DateColumns == {<<>>, <<0>>, <<5>>}

Mappings ==
    { [date_column |-> dc, description_column |-> <<1>>,
       amount_column |-> src.amount_column, debit_column |-> src.debit_column,
       credit_column |-> src.credit_column, memo_column |-> <<>>,
       date_format |-> IsoFormat] : dc \in DateColumns, src \in AmountSources }

Profiles == [has_header : BOOLEAN, mapping : Mappings]

InitCsv ==
    /\ pc = "ready"
    /\ csv_profile \in Profiles
    /\ \E bs \in SeqsUpTo(RowBodies, MaxCsvRows) : csv_rows = WithLabels(bs)
    /\ csv_result = <<>>
    /\ IdleMatch
    /\ IdleDup
    /\ IdleRules
    /\ IdleApply
    /\ IdleSim
    /\ IdleAmount
    /\ IdleOfx
    /\ IdleDate

ImportCsv ==
    /\ pc = "ready"
    /\ csv_result' = import_csv(csv_rows, csv_profile)
    /\ pc' = "done"
    /\ UNCHANGED <<engine, imported, existing, results, batch, dup_args, duplicates,
                   rule_list, rule_engine, cat_tx, found_rule, csv_profile, csv_rows>>
    /\ UNCHANGED <<apply_vars, sim_vars, amount_vars, ofx_vars, date_vars>>

NextCsv == ImportCsv

SpecCsv == InitCsv /\ [][NextCsv]_vars

-----------------------------------------------------------------------------
(* OfxParser::parse as a scan: any line next, the end of the input at any point *)

Tag(name, text) == [lt |-> TRUE, name |-> name, gt |-> TRUE, text |-> text]

\* "20240101", "20240115", "20240131" and a text that is no date
OfxDates ==
    [start |-> <<"2", "0", "2", "4", "0", "1", "0", "1">>,
     posted |-> <<"2", "0", "2", "4", "0", "1", "1", "5">>,
     end |-> <<"2", "0", "2", "4", "0", "1", "3", "1">>,
     bad |-> <<"2", "0", "2", "4">>]

Lines ==
    { Tag("ACCTID", <<"7">>), Tag("ACCTID", <<>>),
      Tag("BANKID", <<"9">>), Tag("ACCTTYPE", <<"C">>), Tag("CURDEF", <<"U">>),
      Tag("DTSTART", OfxDates.start), Tag("DTSTART", OfxDates.bad),
      Tag("DTEND", OfxDates.end), Tag("DTEND", OfxDates.bad),
      Tag("STMTTRN", <<>>), Tag("stmttrn", <<>>), Tag("/STMTTRN", <<>>),
      Tag("DTPOSTED", OfxDates.posted), Tag("DTPOSTED", OfxDates.bad),
      Tag("TRNAMT", <<"-", "4", "9", ".", "9", "9">>), Tag("TRNAMT", <<"x">>),
      Tag("FITID", <<"T", "1">>), Tag("MEMO", <<"m">>), Tag("NAME", <<"n">>),
      Tag("CHECKNUM", <<"1">>), Tag("TRNTYPE", <<"D">>),
      [lt |-> TRUE, name |-> "FITID", gt |-> FALSE, text |-> <<>>],
      [lt |-> FALSE, name |-> "", gt |-> FALSE, text |-> <<"O", "F", "X">>] }

InitOfx ==
    /\ pc = "scanning"
    /\ IdleOfx
    /\ IdleMatch
    /\ IdleDup
    /\ IdleRules
    /\ IdleApply
    /\ IdleSim
    /\ IdleAmount
    /\ IdleCsv
    /\ IdleDate

ScanLine ==
    /\ pc = "scanning"
    /\ lines_read < MaxLines
    /\ \E ln \in Lines :
           LET st == Step(Locals, ln)
           IN  /\ account' = st.account
               /\ start_date' = st.start_date
               /\ end_date' = st.end_date
               /\ ofx_transactions' = st.transactions
               /\ currency' = st.currency
               /\ in_stmttrn' = st.in_stmttrn
               /\ current_trx' = st.current_trx
               /\ last_line' = <<ln>>
    /\ lines_read' = lines_read + 1
    /\ UNCHANGED <<pc, engine, imported, existing, results, batch, dup_args, duplicates,
                   rule_list, rule_engine, cat_tx, found_rule, ofx_result>>
    /\ UNCHANGED <<apply_vars, sim_vars, amount_vars, csv_vars, date_vars>>

EndOfInput ==
    /\ pc = "scanning"
    /\ ofx_result' = Finish(Locals)
    /\ pc' = "parsed"
    /\ UNCHANGED <<engine, imported, existing, results, batch, dup_args, duplicates,
                   rule_list, rule_engine, cat_tx, found_rule, account, start_date,
                   end_date, ofx_transactions, currency, in_stmttrn, current_trx,
                   last_line, lines_read>>
    /\ UNCHANGED <<apply_vars, sim_vars, amount_vars, csv_vars, date_vars>>

NextOfx == ScanLine \/ EndOfInput

SpecOfx == InitOfx /\ [][NextOfx]_vars

-----------------------------------------------------------------------------
(* parse_date as a call *)

Pad2(n) == <<Digit[(n \div 10) + 1], Digit[(n % 10) + 1]>>

\* day and month numbers: small ones that read both ways, and ones that are
\* a day only
DateNumbers == {1, 2, 12, 13, 29, 31}

\* a leap year and a common year
YearTexts == {<<"2", "0", "2", "4">>, <<"2", "0", "2", "3">>}

DateSeparators == {"/", "-", "."}

\* date cells: two numbers and a year, with the year last or first
DateTexts ==
    {Pad2(x) \o <<sep>> \o Pad2(y) \o <<sep>> \o yr :
        x \in DateNumbers, y \in DateNumbers, sep \in DateSeparators, yr \in YearTexts}
    \cup {yr \o <<sep>> \o Pad2(x) \o <<sep>> \o Pad2(y) :
        x \in DateNumbers, y \in DateNumbers, sep \in DateSeparators, yr \in YearTexts}
    \cup {<<>>, <<"x">>, <<"1", "/", "2", "/", "2", "0", "2", "4">>,
          <<" ", "0", "1", "/", "0", "2", "/", "2", "0", "2", "4", " ">>}

\* the profile's date_format: one of the six layouts of the fallback list, or
\* a dotted layout that is not among them
DateFormats ==
    {Fallbacks[k] : k \in 1..Len(Fallbacks)} \cup {<<"%d", ".", "%m", ".", "%Y">>}

InitDate ==
    /\ pc = "ready"
    /\ date_text \in DateTexts
    /\ date_format \in DateFormats
    /\ date_parsed = <<>>
    /\ IdleMatch
    /\ IdleDup
    /\ IdleRules
    /\ IdleApply
    /\ IdleSim
    /\ IdleAmount
    /\ IdleCsv
    /\ IdleOfx

ParseDate ==
    /\ pc = "ready"
    /\ date_parsed' = parse_date(date_text, date_format)
    /\ pc' = "done"
    /\ UNCHANGED <<engine, imported, existing, results, batch, dup_args, duplicates,
                   rule_list, rule_engine, cat_tx, found_rule, date_text, date_format>>
    /\ UNCHANGED <<apply_vars, sim_vars, amount_vars, csv_vars, ofx_vars>>

NextDate == ParseDate

SpecDate == InitDate /\ [][NextDate]_vars

-----------------------------------------------------------------------------
(* Properties of find_matches *)

Done == pc = "done"

ImportedIdx == 1..Len(imported)

ExistingIdx == 1..Len(existing)

AmountDistance(k, j) ==
    IF imported[k].amount_cents >= existing[j].amount_cents
    THEN imported[k].amount_cents - existing[j].amount_cents
    ELSE existing[j].amount_cents - imported[k].amount_cents

DateDistance(k, j) ==
    IF imported[k].date >= existing[j].date
    THEN imported[k].date - existing[j].date
    ELSE existing[j].date - imported[k].date

OutOfReach(k, j) ==
    \/ AmountDistance(k, j) > engine.amount_tolerance_cents
    \/ DateDistance(k, j) > engine.date_window_days

Unmatched(r) == r.matched_tx_id = <<>>

\* C1: find_matches returns exactly one MatchResult per imported transaction,
\* in the order of the imported list, the k-th result carrying the id of the
\* k-th imported transaction, also when the existing list is empty.
C1_OneResultPerImported ==
    Done =>
        /\ Len(results) = Len(imported)
        /\ \A k \in ImportedIdx : results[k].imported_tx_id = imported[k].id

C1_Witness ==
    /\ Done
    /\ Len(imported) = 2
    /\ existing = <<>>
    /\ Len(results) = 2
    /\ results[1].imported_tx_id = imported[1].id
    /\ results[2].imported_tx_id = imported[2].id

\* C2: in every MatchResult matched_tx_id is None exactly when match_type is
\* None; an unmatched result has confidence 0 and difference 0; every call
\* yields well-formed results (there is no error outcome).
C2_NoneIffUnmatched ==
    Done =>
        \A k \in 1..Len(results) :
            /\ Len(results[k].matched_tx_id) <= 1
            /\ results[k].match_type[1] \in {"Exact", "DateAndAmount", "Fuzzy", "None"}
            /\ Unmatched(results[k]) <=> results[k].match_type = <<"None">>
            /\ Unmatched(results[k]) =>
                   /\ results[k].confidence = Zero
                   /\ results[k].difference_cents = 0

C2_Witness ==
    /\ Done
    /\ Len(results) = 2
    /\ Len(existing) = 1
    /\ Unmatched(results[1])
    /\ results[1].match_type = <<"None">>
    /\ ~Unmatched(results[2])
    /\ results[2].match_type /= <<"None">>

\* C3: an existing transaction whose amount difference exceeds the tolerance
\* or whose date distance exceeds the window is never the match of that
\* imported transaction, whatever the descriptions and the threshold; when
\* every existing transaction is such, the result is MatchType::None.
C3_OutOfReachNeverMatched ==
    Done =>
        \A k \in ImportedIdx :
            /\ \A j \in ExistingIdx :
                   OutOfReach(k, j) => results[k].matched_tx_id /= <<existing[j].id>>
            /\ (\A j \in ExistingIdx : OutOfReach(k, j)) =>
                   /\ results[k].match_type = <<"None">>
                   /\ Unmatched(results[k])

C3_Witness ==
    /\ Done
    /\ Len(imported) = 1
    /\ Len(existing) = 2
    /\ engine.fuzzy_threshold = Zero
    /\ engine.date_window_days = 0
    /\ engine.amount_tolerance_cents = 0
    /\ description_similarity(imported[1].description, existing[1].description) = One
    /\ description_similarity(imported[1].description, existing[2].description) = One
    /\ AmountDistance(1, 1) = 1 /\ DateDistance(1, 1) = 0
    /\ AmountDistance(1, 2) = 0 /\ DateDistance(1, 2) = 1
    /\ imported[1].amount_cents < existing[1].amount_cents
    /\ results[1].match_type = <<"None">>

\* C4: with a non-negative tolerance and window, a pair with identical date
\* and identical amount scores Exact with confidence 1 and difference 0,
\* whatever the descriptions and the fuzzy threshold.
C4_ExactPair ==
    Done =>
        \A k \in ImportedIdx :
            ( /\ Len(existing) = 1
              /\ engine.amount_tolerance_cents >= 0
              /\ engine.date_window_days >= 0
              /\ imported[k].date = existing[1].date
              /\ imported[k].amount_cents = existing[1].amount_cents )
            => /\ results[k].matched_tx_id = <<existing[1].id>>
               /\ results[k].match_type = <<"Exact">>
               /\ results[k].confidence = One
               /\ results[k].difference_cents = 0

C4_Witness ==
    /\ Done
    /\ Len(imported) = 1
    /\ Len(existing) = 1
    /\ engine.fuzzy_threshold = <<3, 2>>
    /\ engine.date_window_days = 0
    /\ imported[1].date = existing[1].date
    /\ imported[1].amount_cents = existing[1].amount_cents
    /\ imported[1].description = <<"c", "d">>
    /\ existing[1].description = <<"a", "b">>
    /\ description_similarity(imported[1].description, existing[1].description) = Zero
    /\ results[1].match_type = <<"Exact">>

\* the confidence the specification prescribes for a pair that is not a perfect hit
PrescribedConfidence(k, j) ==
    LET date_score == RatSub(One, Rat(DateDistance(k, j), engine.date_window_days + 1))
        desc_score == description_similarity(imported[k].description,
                                             existing[j].description)
    IN  RatHalf(RatAdd(date_score, desc_score))

\* C5: a pair within tolerance and window that is not a perfect hit has
\* confidence (date_score + desc_score) / 2 with
\* date_score = 1 - distance / (window + 1); it is accepted exactly when the
\* confidence reaches the threshold, as DateAndAmount when the date distance
\* is zero and as Fuzzy, carrying the confidence as score, otherwise.
C5_ConfidenceAndClass ==
    Done =>
        \A k \in ImportedIdx :
            ( /\ Len(existing) = 1
              /\ ~OutOfReach(k, 1)
              /\ ~(DateDistance(k, 1) = 0 /\ AmountDistance(k, 1) = 0) )
            => IF RatGeq(PrescribedConfidence(k, 1), engine.fuzzy_threshold)
               THEN /\ results[k].matched_tx_id = <<existing[1].id>>
                    /\ results[k].confidence = PrescribedConfidence(k, 1)
                    /\ results[k].match_type =
                           IF DateDistance(k, 1) = 0 THEN <<"DateAndAmount">>
                           ELSE <<"Fuzzy", results[k].confidence>>
               ELSE /\ Unmatched(results[k])
                    /\ results[k].match_type = <<"None">>

C5_Witness ==
    /\ Done
    /\ Len(imported) = 2
    /\ Len(existing) = 1
    /\ engine.fuzzy_threshold = <<3, 4>>
    /\ DateDistance(1, 1) = 1
    /\ results[1].match_type = <<"Fuzzy", <<3, 4>> >>
    /\ results[1].confidence = <<3, 4>>
    /\ results[2].match_type = <<"None">>

Accepted(k) == {j \in ExistingIdx : score_pair(engine, imported[k], existing[j]) /= <<>>}

CandidateConfidence(k, j) == score_pair(engine, imported[k], existing[j])[1][3]

\* C6: the reported confidence is the maximum confidence over the accepted
\* candidates, and the result is matched whenever a candidate is accepted.
C6_MaximumConfidence ==
    Done =>
        \A k \in ImportedIdx :
            Accepted(k) /= {} =>
                /\ ~Unmatched(results[k])
                /\ \E j \in Accepted(k) :
                       /\ results[k].matched_tx_id = <<existing[j].id>>
                       /\ results[k].confidence = CandidateConfidence(k, j)
                /\ \A j \in Accepted(k) :
                       RatLeq(CandidateConfidence(k, j), results[k].confidence)

C6_Witness ==
    /\ Done
    /\ Len(imported) = 1
    /\ Len(existing) = 2
    /\ Accepted(1) = {1, 2}
    /\ RatLt(CandidateConfidence(1, 2), CandidateConfidence(1, 1))
    /\ results[1].matched_tx_id = <<existing[1].id>>

\* C7: the k-th result depends only on the k-th imported transaction, the
\* existing list and the engine: it equals the single result of matching
\* that transaction alone, so two imported transactions may be matched to
\* the same existing transaction.
C7_ResultsIndependent ==
    Done =>
        \A k \in ImportedIdx :
            /\ Len(find_matches(engine, <<imported[k]>>, existing)) = 1
            /\ results[k] = find_matches(engine, <<imported[k]>>, existing)[1]

C7_Witness ==
    /\ Done
    /\ Len(imported) = 2
    /\ Len(existing) = 2
    /\ ~Unmatched(results[1])
    /\ results[1].matched_tx_id = results[2].matched_tx_id
    /\ imported[1].description /= imported[2].description

\* C8: every MatchResult has a confidence in the closed range [0, 1].
C8_ConfidenceInUnitRange ==
    Done =>
        \A k \in 1..Len(results) :
            /\ RatLeq(Zero, results[k].confidence)
            /\ RatLeq(results[k].confidence, One)

C8_Witness ==
    /\ Done
    /\ Len(results) = 2
    /\ engine.fuzzy_threshold = Zero
    /\ results[1].confidence = <<3, 4>>
    /\ ~Unmatched(results[2])
    /\ results[2].confidence = <<1, 4>>

-----------------------------------------------------------------------------
(* Properties of find_duplicates *)

BatchIdx == 1..Len(batch)

\* the test the specification prescribes for the pair of batch positions i < j
IsDuplicatePair(i, j) ==
    /\ i < j
    /\ batch[i].amount_cents = batch[j].amount_cents
    /\ (IF batch[i].date >= batch[j].date THEN batch[i].date - batch[j].date
        ELSE batch[j].date - batch[i].date) <= dup_args.window_days
    /\ RatGeq(description_similarity(batch[i].description, batch[j].description),
              dup_args.threshold)

DuplicatePairs == {q \in BatchIdx \X BatchIdx : IsDuplicatePair(q[1], q[2])}

\* position of an id in the batch (ids are unique in the batch)
BatchPos(id) == CHOOSE i \in BatchIdx : batch[i].id = id

\* C9: find_duplicates returns the id pair of exactly the index pairs i < j
\* with equal amounts, a date distance within the window and a similarity
\* at or above the threshold; no pair twice or with itself, in ascending
\* (i, j) order, and without transitive closure.
C9_DuplicatePairs ==
    Done =>
        /\ Len(duplicates) = Cardinality(DuplicatePairs)
        /\ \A q \in DuplicatePairs :
               \E p \in 1..Len(duplicates) :
                   duplicates[p] = <<batch[q[1]].id, batch[q[2]].id>>
        /\ \A p \in 1..Len(duplicates) :
               /\ duplicates[p][1] /= duplicates[p][2]
               /\ \E q \in DuplicatePairs :
                      duplicates[p] = <<batch[q[1]].id, batch[q[2]].id>>
        /\ \A p1, p2 \in 1..Len(duplicates) :
               p1 < p2 =>
                   \/ BatchPos(duplicates[p1][1]) < BatchPos(duplicates[p2][1])
                   \/ /\ duplicates[p1][1] = duplicates[p2][1]
                      /\ BatchPos(duplicates[p1][2]) < BatchPos(duplicates[p2][2])

C9_Witness ==
    /\ Done
    /\ Len(batch) = 3
    /\ batch[1].description /= batch[2].description
    /\ batch[2].description /= batch[3].description
    /\ batch[1].description /= batch[3].description
    /\ duplicates = << <<batch[1].id, batch[2].id>>, <<batch[1].id, batch[3].id>>,
                       <<batch[2].id, batch[3].id>> >>

-----------------------------------------------------------------------------
(* Properties of the rule engine *)

RuleIdx == 1..Len(rule_list)

\* the declared rules that match the transaction
MatchingRules == {i \in RuleIdx : rule_matches(Compile(rule_list[i]), cat_tx)}

\* i wins over j: a higher priority, or the same priority and declared no later
Wins(i, j) ==
    \/ rule_list[i].priority > rule_list[j].priority
    \/ rule_list[i].priority = rule_list[j].priority /\ i <= j

\* C10: find_matching_rule returns at most one rule: among the matching rules
\* the one of highest priority and, among those of equal priority, the one
\* declared first; it returns None only when no rule matches.
C10_HighestPriorityFirstDeclared ==
    Done =>
        /\ Len(found_rule) <= 1
        /\ found_rule = <<>> <=> MatchingRules = {}
        /\ found_rule /= <<>> =>
               \E i \in MatchingRules :
                   /\ found_rule[1] = rule_list[i]
                   /\ \A j \in MatchingRules : Wins(i, j)

C10_Witness ==
    /\ Done
    /\ Len(rule_list) = 3
    /\ MatchingRules = {1, 2, 3}
    /\ rule_list[1].priority = 1
    /\ rule_list[2].priority = 2
    /\ rule_list[3].priority = 2
    /\ found_rule = <<rule_list[2]>>

\* the amount lies inside the rule's range, an absent bound admitting all
InRange(rule, amount) ==
    /\ rule.amount_min_cents = <<>> \/ amount >= rule.amount_min_cents[1]
    /\ rule.amount_max_cents = <<>> \/ amount <= rule.amount_max_cents[1]

\* the rule with both amount bounds removed
Unbounded(rule) == [rule EXCEPT !.amount_min_cents = <<>>, !.amount_max_cents = <<>>]

\* C11: a rule with amount_min_cents = m is never returned for an amount
\* below m and a rule with amount_max_cents = M never for an amount above M,
\* whatever its pattern; the bounds are inclusive and an absent bound
\* constrains nothing: a rule matches exactly when the amount is in its range
\* and the rule without its bounds matches.
C11_AmountRange ==
    Done =>
        \A i \in RuleIdx :
            LET rule == rule_list[i]
                amount == cat_tx.amount_cents
            IN  /\ (rule.amount_min_cents /= <<>> /\ amount < rule.amount_min_cents[1])
                       => found_rule /= <<rule>>
                /\ (rule.amount_max_cents /= <<>> /\ amount > rule.amount_max_cents[1])
                       => found_rule /= <<rule>>
                /\ rule_matches(rule_engine[CHOOSE k \in 1..Len(rule_engine) :
                                                rule_engine[k].rule = rule], cat_tx)
                       <=> /\ InRange(rule, amount)
                           /\ rule_matches(Compile(Unbounded(rule)), cat_tx)
                /\ (Len(rule_list) = 1 /\ InRange(rule, amount)
                        /\ rule_matches(Compile(Unbounded(rule)), cat_tx))
                       => found_rule = <<rule>>

\* a rule at its lower bound is returned although a rule of higher priority,
\* whose pattern matches too, has its upper bound below the amount
C11_Witness ==
    /\ Done
    /\ Len(rule_list) = 2
    /\ rule_list[1].amount_min_cents = <<1>>
    /\ rule_list[2].amount_max_cents = <<0>>
    /\ rule_list[2].priority > rule_list[1].priority
    /\ cat_tx.amount_cents = 1
    /\ rule_matches(Compile(Unbounded(rule_list[2])), cat_tx)
    /\ found_rule = <<rule_list[1]>>

\* a Regex rule whose pattern does not compile
BadRegex(rule) == rule.match_type = <<"Regex">> /\ RegexNew(rule.pattern) = <<>>

NotBadRegex(rule) == ~BadRegex(rule)

\* C12: building the engine always succeeds and keeps every rule; a Regex
\* rule whose pattern does not compile is kept without a compiled regex, is
\* never returned, and the rule returned is the one an engine built without
\* such rules returns.
C12_BadRegexInert ==
    /\ pc \in {"built", "done"} =>
           /\ Len(rule_engine) = Len(rule_list)
           /\ \A i \in RuleIdx :
                  \E k \in 1..Len(rule_engine) :
                      /\ rule_engine[k].rule = rule_list[i]
                      /\ BadRegex(rule_list[i]) => rule_engine[k].compiled_regex = <<>>
    /\ Done =>
           /\ \A i \in RuleIdx : BadRegex(rule_list[i]) => found_rule /= <<rule_list[i]>>
           /\ found_rule = find_matching_rule(new_engine(SelectSeq(rule_list, NotBadRegex)), cat_tx)

\* a non-compiling Regex rule of the highest priority is passed over
C12_Witness ==
    /\ Done
    /\ Len(rule_list) = 2
    /\ BadRegex(rule_list[1])
    /\ rule_list[1].priority > rule_list[2].priority
    /\ found_rule = <<rule_list[2]>>

BatchTxIdx == 1..Len(cat_batch)

\* C13: apply_rules returns one (index, rule) pair for exactly those inputs
\* for which find_matching_rule returns a rule, carrying that rule and the
\* input's position counted from 0, in strictly increasing order of index;
\* inputs without a matching rule are left out.
C13_ApplyRules ==
    pc = "applied" =>
        /\ \A p \in 1..Len(applied) :
               /\ applied[p][1] + 1 \in BatchTxIdx
               /\ find_matching_rule(rule_engine, cat_batch[applied[p][1] + 1])
                      = <<applied[p][2]>>
        /\ \A k \in BatchTxIdx :
               find_matching_rule(rule_engine, cat_batch[k]) /= <<>>
                   <=> \E p \in 1..Len(applied) : applied[p][1] = k - 1
        /\ \A p, q \in 1..Len(applied) : p < q => applied[p][1] < applied[q][1]

\* the first and the third input match different rules, the second none
C13_Witness ==
    /\ pc = "applied"
    /\ Len(cat_batch) = 3
    /\ Len(applied) = 2
    /\ applied[1][1] = 0
    /\ applied[2][1] = 2
    /\ applied[1][2] /= applied[2][2]

-----------------------------------------------------------------------------
(* Properties of the normalized similarity *)

InUnitRange(r) == RatLeq(Zero, r) /\ RatLeq(r, One)

\* C14: description_similarity and fuzzy_score are symmetric in their two
\* arguments, are 1 for a string compared with itself, are 1 when both
\* strings are empty, and always lie between 0 and 1 inclusive.
C14_SimilarityLaws ==
    Done /\ sim_out /= <<>> =>
        /\ sim_out.description_ab = sim_out.description_ba
        /\ sim_out.fuzzy_ab = sim_out.fuzzy_ba
        /\ sim_out.description_aa = One
        /\ sim_out.fuzzy_aa = One
        /\ (sim_a = <<>> /\ sim_b = <<>>) =>
               sim_out.description_ab = One /\ sim_out.fuzzy_ab = One
        /\ InUnitRange(sim_out.description_ab)
        /\ InUnitRange(sim_out.fuzzy_ab)

\* two different strings of different lengths with scores strictly inside
\* the range, the two functions disagreeing on them
C14_Witness ==
    /\ Done
    /\ sim_out /= <<>>
    /\ Len(sim_a) < Len(sim_b)
    /\ sim_a /= <<>>
    /\ RatLt(Zero, sim_out.fuzzy_ab) /\ RatLt(sim_out.fuzzy_ab, One)
    /\ RatLt(Zero, sim_out.description_ab) /\ RatLt(sim_out.description_ab, One)
    /\ sim_out.fuzzy_ab /= sim_out.description_ab

-----------------------------------------------------------------------------
(* Properties of the CSV amount parser *)

\* C18: parsing the written form of a cents value c ('$' or not, '-' when
\* negative, digits, '.', two decimals) returns exactly c, also when the text
\* carries '$', thousands commas and spaces, which are stripped; the result is
\* a whole number of cents.
C18_AmountRoundTrip ==
    Done /\ amt_text /= <<>> =>
        /\ amt_parsed = <<"Ok", amt_cents>>
        /\ amt_parsed[2] \in Int

\* a negative amount written with '$', a thousands comma and spaces
C18_Witness ==
    /\ Done
    /\ amt_cents = -123456
    /\ amt_text = <<" ", "$", " ", "-", "1", ",", "2", "3", "4", ".", "5", "6", " ">>
    /\ amt_parsed = <<"Ok", -123456>>

-----------------------------------------------------------------------------
(* Properties of import_csv *)

CsvDone == pc = "done" /\ csv_result /= <<>>

CsvMapping == csv_profile.mapping

\* the records the reader yields
CsvRecords == Records(csv_rows, csv_profile.has_header)

\* the transactions the call hands back
Returned == IF csv_result[1] = "Ok" THEN csv_result[2] ELSE <<>>

\* no amount column, debit and credit columns both mapped
DebitCreditMode ==
    /\ CsvMapping.amount_column = <<>>
    /\ CsvMapping.debit_column /= <<>>
    /\ CsvMapping.credit_column /= <<>>

\* the record a returned transaction was made from
RecordOf(tx) == CHOOSE rec \in {CsvRecords[k] : k \in 1..Len(CsvRecords)} : rec[2] = tx.description

\* a cell is absent or holds only spaces
Blank(record, col) == col >= Len(record) \/ \A k \in 1..Len(record[col + 1]) : record[col + 1][k] = " "

\* the cents written in the debit and credit cells of the explored rows
CellCents(cell) ==
    CASE cell = <<"5", "0", ".", "0", "0">> -> 5000
      [] cell = <<"1", "0", "0", ".", "0", "0">> -> 10000

\* C15: in debit/credit mode a returned transaction made from a row with
\* only a debit value d has amount +d, from a row with only a credit value c
\* has amount -c, and from a row whose two cells are both absent or blank has
\* amount 0; a credit of 100.00 gives -10000 and a debit of 50.00 gives 5000.
C15_DebitCreditSign ==
    CsvDone /\ DebitCreditMode =>
        \A p \in 1..Len(Returned) :
            LET tx == Returned[p]
                rec == RecordOf(tx)
                d_col == CsvMapping.debit_column[1]
                c_col == CsvMapping.credit_column[1]
            IN  /\ (~Blank(rec, d_col) /\ Blank(rec, c_col))
                       => tx.amount = CellCents(rec[d_col + 1])
                /\ (Blank(rec, d_col) /\ ~Blank(rec, c_col))
                       => tx.amount = 0 - CellCents(rec[c_col + 1])
                /\ (Blank(rec, d_col) /\ Blank(rec, c_col)) => tx.amount = 0

\* a debit of 50.00 and then a credit of 100.00
C15_Witness ==
    /\ CsvDone
    /\ DebitCreditMode
    /\ CsvMapping.credit_column = <<4>>
    /\ Len(Returned) = 2
    /\ RecordOf(Returned[1])[4] = <<"5", "0", ".", "0", "0">>
    /\ RecordOf(Returned[1])[5] = <<>>
    /\ Returned[1].amount = 5000
    /\ RecordOf(Returned[2])[4] = <<>>
    /\ RecordOf(Returned[2])[5] = <<"1", "0", "0", ".", "0", "0">>
    /\ Returned[2].amount = -10000

CsvIdx == 1..Len(CsvRecords)

\* neither an amount column nor both a debit and a credit column
NoAmountSource ==
    /\ CsvMapping.amount_column = <<>>
    /\ CsvMapping.debit_column = <<>> \/ CsvMapping.credit_column = <<>>

\* the mapping makes the loop pass over every record
SkippedRecord(rec) == rec = <<>> \/ CsvMapping.date_column = <<>> \/ NoAmountSource

\* the record has no field at the mapped date index
DateFieldMissing(rec) ==
    /\ rec /= <<>>
    /\ CsvMapping.date_column /= <<>>
    /\ CsvMapping.date_column[1] >= Len(rec)

\* the record's date cell parses under no format
DateUnparsable(rec) ==
    /\ rec /= <<>>
    /\ CsvMapping.date_column /= <<>>
    /\ CsvMapping.date_column[1] < Len(rec)
    /\ parse_date(rec[CsvMapping.date_column[1] + 1], CsvMapping.date_format)[1] = "Err"

\* the cell holds something that is no amount
NotAnAmount(cell) == parse_amount(cell)[1] = "Err"

\* the record has an amount the import reads and cannot parse
AmountUnparsable(rec) ==
    /\ ~SkippedRecord(rec)
    /\ IF CsvMapping.amount_column /= <<>>
       THEN NotAnAmount(OrEmpty(Get(rec, CsvMapping.amount_column[1])))
       ELSE \/ /\ ~Blank(rec, CsvMapping.debit_column[1])
               /\ NotAnAmount(rec[CsvMapping.debit_column[1] + 1])
            \/ /\ ~Blank(rec, CsvMapping.credit_column[1])
               /\ NotAnAmount(rec[CsvMapping.credit_column[1] + 1])

\* C16: import_csv never returns Ok with an empty list; when every record is
\* passed over (no record at all after the header, no date column mapped, or
\* no amount source mapped) and no record fails, the result is NoDataRows.
C16_NoDataRows ==
    CsvDone =>
        /\ csv_result[1] = "Ok" => csv_result[2] /= <<>>
        /\ (\A k \in CsvIdx :
                /\ SkippedRecord(CsvRecords[k])
                /\ ~DateFieldMissing(CsvRecords[k])
                /\ ~DateUnparsable(CsvRecords[k]))
               => csv_result = <<"Err", "NoDataRows">>

\* two records with good dates and no amount source mapped
C16_Witness ==
    /\ CsvDone
    /\ Len(CsvRecords) = 2
    /\ CsvMapping.date_column = <<0>>
    /\ NoAmountSource
    /\ \A k \in CsvIdx : ~DateUnparsable(CsvRecords[k])
    /\ csv_result = <<"Err", "NoDataRows">>

\* the records from which a transaction is made when nothing fails
Kept == SelectSeq(CsvRecords, LAMBDA rec : ~SkippedRecord(rec))

\* the returned transactions are those of the kept records, in file order
ReturnedInFileOrder ==
    /\ Len(Returned) = Len(Kept)
    /\ \A p \in 1..Len(Kept) :
           /\ Returned[p].description = Kept[p][2]
           /\ <<"Ok", Returned[p].date>>
                  = parse_date(Kept[p][CsvMapping.date_column[1] + 1], CsvMapping.date_format)

\* the error of a failing record: the date is looked at before the amount
ErrorOf(rec) ==
    IF DateFieldMissing(rec) THEN "MissingColumn"
    ELSE IF DateUnparsable(rec) THEN "InvalidDate"
    ELSE "InvalidAmount"

\* C17 as stated: a record with an unparsable date or amount makes the call
\* return InvalidDate or InvalidAmount and no transaction; otherwise the call
\* returns one transaction per record not passed over, in file order.
C17_AsStated ==
    CsvDone =>
        IF \E k \in CsvIdx : DateUnparsable(CsvRecords[k]) \/ AmountUnparsable(CsvRecords[k])
        THEN /\ csv_result[1] = "Err"
             /\ csv_result[2] \in {"InvalidDate", "InvalidAmount"}
        ELSE ReturnedInFileOrder

C17_Failing ==
    {k \in CsvIdx : \/ DateFieldMissing(CsvRecords[k])
                    \/ DateUnparsable(CsvRecords[k])
                    \/ (~DateFieldMissing(CsvRecords[k]) /\ AmountUnparsable(CsvRecords[k]))}

\* C17: CSV import is all-or-nothing: if a record lacks the mapped date
\* field (MissingColumn), has a date that parses under no format
\* (InvalidDate) or an amount that does not parse (InvalidAmount), the call
\* returns the error of the first such record and no transaction; otherwise
\* it returns one transaction per record not passed over, in file order
\* (NoDataRows when there is none).
C17_AllOrNothing ==
    CsvDone =>
        IF C17_Failing /= {}
        THEN LET first == CHOOSE k \in C17_Failing : \A j \in C17_Failing : k <= j
             IN  csv_result = <<"Err", ErrorOf(CsvRecords[first])>>
        ELSE /\ ReturnedInFileOrder
             /\ csv_result = IF Kept = <<>> THEN <<"Err", "NoDataRows">> ELSE <<"Ok", Returned>>

\* a good first record, then a record with a bad amount: nothing is returned
C17_Witness ==
    /\ CsvDone
    /\ Len(CsvRecords) = 2
    /\ C17_Failing = {2}
    /\ csv_result = <<"Err", "InvalidAmount">>

-----------------------------------------------------------------------------
(* Records without a date *)

\* the record has a field at the mapped date index and the field is empty
EmptyDateCell(rec) ==
    /\ rec /= <<>>
    /\ CsvMapping.date_column /= <<>>
    /\ CsvMapping.date_column[1] < Len(rec)
    /\ rec[CsvMapping.date_column[1] + 1] = <<>>

\* no date can be identified for the record
NoIdentifiableDate(rec) ==
    CsvMapping.date_column = <<>> \/ DateFieldMissing(rec) \/ EmptyDateCell(rec)

\* C26 as stated: a record for which no date can be identified (no date
\* column mapped, no field at the mapped date index, or an empty date cell)
\* is dropped without an error: when no other record fails, the call returns
\* the transactions of the remaining records (NoDataRows when there is none).
C26_AsStated ==
    CsvDone =>
        \A k \in CsvIdx :
            ( /\ NoIdentifiableDate(CsvRecords[k])
              /\ \A j \in CsvIdx \ {k} : j \notin C17_Failing )
            => csv_result[1] = "Ok" \/ csv_result = <<"Err", "NoDataRows">>

\* C26 (amended): records are dropped for want of a date only when no date
\* column is mapped, and then every record is dropped and the call returns
\* NoDataRows; with a date column mapped, the first record that fails is
\* reported: MissingColumn when it has no field at the mapped date index,
\* InvalidDate when its date cell is empty, and no transaction is returned.
C26_UndatedRecord ==
    CsvDone =>
        /\ CsvMapping.date_column = <<>> => csv_result = <<"Err", "NoDataRows">>
        /\ \A k \in CsvIdx :
               (\A j \in 1..(k - 1) : j \notin C17_Failing) =>
                   /\ DateFieldMissing(CsvRecords[k]) => csv_result = <<"Err", "MissingColumn">>
                   /\ EmptyDateCell(CsvRecords[k]) => csv_result = <<"Err", "InvalidDate">>

\* a good first record, then a record with an empty date cell
C26_Witness ==
    /\ CsvDone
    /\ Len(CsvRecords) = 2
    /\ CsvMapping.date_column = <<0>>
    /\ CsvMapping.amount_column = <<2>>
    /\ Record(CsvRecords[1], CsvMapping)[1] = "Push"
    /\ EmptyDateCell(CsvRecords[2])
    /\ ~NotAnAmount(CsvRecords[2][3])
    /\ csv_result = <<"Err", "InvalidDate">>

-----------------------------------------------------------------------------
(* Rows with both a debit and a credit, and the precedence of the amount column *)

\* the cents written in the amount cells of the explored rows that parse
AmountCellCents(cell) ==
    CASE cell = <<"5", "0", ".", "0", "0">> -> 5000
      [] cell = <<"-", "1", "0", "0", ".", "0", "0">> -> -10000
      [] cell = <<"0">> -> 0
      [] cell = <<"1", ".", "5", "0">> -> 150

\* C30: in debit/credit mode a row whose debit and credit cells both hold a
\* parseable value gives amount 0 (not debit minus credit), the debit and
\* credit fields keeping both parsed values; when an amount column is mapped
\* the amount is read from it and the debit and credit fields are None,
\* whether or not debit and credit columns are mapped too.
C30_BothSidesAndPrecedence ==
    CsvDone =>
        \A p \in 1..Len(Returned) :
            LET tx == Returned[p]
                rec == RecordOf(tx)
            IN  /\ ( /\ DebitCreditMode
                     /\ ~Blank(rec, CsvMapping.debit_column[1])
                     /\ ~Blank(rec, CsvMapping.credit_column[1]) )
                   => /\ tx.amount = 0
                      /\ tx.debit = <<CellCents(rec[CsvMapping.debit_column[1] + 1])>>
                      /\ tx.credit = <<CellCents(rec[CsvMapping.credit_column[1] + 1])>>
                /\ CsvMapping.amount_column /= <<>>
                   => /\ tx.amount = AmountCellCents(rec[CsvMapping.amount_column[1] + 1])
                      /\ tx.debit = <<>>
                      /\ tx.credit = <<>>

\* one row with a debit of 50.00 and a credit of 100.00, in debit/credit mode
C30_Witness ==
    /\ CsvDone
    /\ DebitCreditMode
    /\ CsvMapping.debit_column = <<3>>
    /\ CsvMapping.credit_column = <<4>>
    /\ Len(Returned) = 1
    /\ RecordOf(Returned[1])[4] = <<"5", "0", ".", "0", "0">>
    /\ RecordOf(Returned[1])[5] = <<"1", "0", "0", ".", "0", "0">>
    /\ Returned[1].amount = 0
    /\ Returned[1].debit = <<5000>>
    /\ Returned[1].credit = <<10000>>

-----------------------------------------------------------------------------
(* Properties of the OFX scan *)

CloseLine == Tag("/STMTTRN", <<>>)

\* this step is a loop iteration over the given line
Scans(ln) == lines_read' = lines_read + 1 /\ last_line' = <<ln>>

\* C19: the scan pushes a transaction only at a </STMTTRN> line and only
\* when the accumulator opened by the preceding <STMTTRN> holds a resolved
\* date, and then it pushes one: with amount 0 when no TRNAMT was read or the
\* latest did not parse, with an empty fit_id when no FITID was read; pushes go
\* to the end of the list, so the order is that of the closing tags; after a
\* </STMTTRN> line the scan is outside a block with no accumulator.
C19_EmitAtClose ==
    [][ /\ ofx_transactions' /= ofx_transactions =>
               /\ Scans(CloseLine)
               /\ current_trx /= <<>>
               /\ current_trx[1].date /= <<>>
        /\ (Scans(CloseLine) /\ current_trx /= <<>> /\ current_trx[1].date /= <<>>) =>
               /\ Len(ofx_transactions') = Len(ofx_transactions) + 1
               /\ SubSeq(ofx_transactions', 1, Len(ofx_transactions)) = ofx_transactions
               /\ LET tx == ofx_transactions'[Len(ofx_transactions')]
                  IN  /\ tx.date = current_trx[1].date[1]
                      /\ current_trx[1].amount = <<>> => tx.amount = 0
                      /\ current_trx[1].amount /= <<>> => tx.amount = current_trx[1].amount[1]
                      /\ current_trx[1].fit_id = <<>> => tx.fit_id = <<>>
                      /\ current_trx[1].fit_id /= <<>> => tx.fit_id = current_trx[1].fit_id[1]
        /\ (Scans(Tag("TRNAMT", <<"x">>)) /\ current_trx' /= <<>>) =>
               current_trx'[1].amount = <<>>
        /\ Scans(Tag("STMTTRN", <<>>)) =>
               current_trx' = <<DefaultTrx>> /\ DefaultTrx.amount = <<>> /\ DefaultTrx.fit_id = <<>>
        /\ Scans(CloseLine) => in_stmttrn' = FALSE /\ current_trx' = <<>>
      ]_vars

\* two blocks closed: the first without TRNAMT and FITID, the second with an
\* amount; the scan is outside a block again
C19_Witness ==
    /\ pc = "scanning"
    /\ last_line = <<CloseLine>>
    /\ Len(ofx_transactions) = 2
    /\ ofx_transactions[1].amount = 0
    /\ ofx_transactions[1].fit_id = <<>>
    /\ ofx_transactions[2].amount = -4999
    /\ in_stmttrn = FALSE
    /\ current_trx = <<>>

\* C20: parse returns a statement only if, at the end of the scan, a start
\* date, an end date and a non-empty account id are all present, and then the
\* statement carries the scanned values; otherwise it returns MissingField
\* and no statement, however many transactions were scanned.
C20_RequiredFields ==
    pc = "parsed" =>
        /\ ofx_result[1] = "Ok"
               <=> (start_date /= <<>> /\ end_date /= <<>> /\ account.account_id /= <<>>)
        /\ ofx_result[1] = "Ok" =>
               ofx_result[2] = [account |-> account, start_date |-> start_date[1],
                                end_date |-> end_date[1],
                                transactions |-> ofx_transactions, currency |-> currency]
        /\ ofx_result[1] /= "Ok" =>
               /\ ofx_result[1] = "Err"
               /\ ofx_result[2][1] = "MissingField"
               /\ ofx_result[2][2] =
                      IF start_date = <<>> THEN "DTSTART"
                      ELSE IF end_date = <<>> THEN "DTEND" ELSE "ACCTID"

\* both dates and a scanned transaction, but an empty account id
C20_Witness ==
    /\ pc = "parsed"
    /\ start_date /= <<>>
    /\ end_date /= <<>>
    /\ account.account_id = <<>>
    /\ Len(ofx_transactions) = 1
    /\ ofx_result = <<"Err", <<"MissingField", "ACCTID">> >>

-----------------------------------------------------------------------------
(* Ties between candidates of find_best_match *)

\* the accepted candidates of imported[k] whose confidence is the maximum
TopCandidates(k) ==
    {j \in Accepted(k) :
        \A i \in Accepted(k) : RatLeq(CandidateConfidence(k, i), CandidateConfidence(k, j))}

FirstOf(S) == CHOOSE j \in S : \A i \in S : j <= i

LastOf(S) == CHOOSE j \in S : \A i \in S : i <= j

\* C21 as stated: when two or more accepted candidates share the maximum
\* confidence, find_matches selects the one that comes first in the
\* existing list.
C21_AsStated ==
    Done =>
        \A k \in ImportedIdx :
            Cardinality(TopCandidates(k)) >= 2 =>
                results[k].matched_tx_id = <<existing[FirstOf(TopCandidates(k))].id>>

\* C21 (amended): when two or more accepted candidates share the maximum
\* confidence, find_matches selects the one that comes last in the existing
\* list, and reports that candidate's class and difference.
C21_LastOfTiesWins ==
    Done =>
        \A k \in ImportedIdx :
            Cardinality(TopCandidates(k)) >= 2 =>
                LET j == LastOf(TopCandidates(k))
                    cand == score_pair(engine, imported[k], existing[j])[1]
                IN  /\ results[k].matched_tx_id = <<existing[j].id>>
                    /\ results[k].match_type = cand[2]
                    /\ results[k].difference_cents = cand[4]

C21_Witness ==
    /\ Done
    /\ Len(imported) = 1
    /\ Len(existing) = 2
    /\ TopCandidates(1) = {1, 2}
    /\ CandidateConfidence(1, 1) = CandidateConfidence(1, 2)
    /\ existing[1].description /= existing[2].description
    /\ results[1].matched_tx_id = <<existing[2].id>>
    /\ results[1].matched_tx_id /= <<existing[1].id>>

\* existing[j] is an accepted candidate with the date and the amount of imported[k]
SameDateAndAmount(k, j) ==
    /\ j \in Accepted(k)
    /\ existing[j].date = imported[k].date
    /\ existing[j].amount_cents = imported[k].amount_cents

IdenticalDescription(k, j) == existing[j].description = imported[k].description

TotallyDifferent(k, j) ==
    description_similarity(imported[k].description, existing[j].description) = Zero

-----------------------------------------------------------------------------
(* An imported transaction with an exact counterpart in the ledger *)

\* the existing transactions with the date and the amount of imported[k]
Perfect(k) ==
    {j \in ExistingIdx : DateDistance(k, j) = 0 /\ AmountDistance(k, j) = 0}

\* the existing transactions of the same date whose amount differs within the
\* tolerance and whose normalised description equals the imported one's
Rivals(k) ==
    {j \in ExistingIdx :
        /\ DateDistance(k, j) = 0
        /\ AmountDistance(k, j) >= 1
        /\ AmountDistance(k, j) <= engine.amount_tolerance_cents
        /\ normalize(existing[j].description) = normalize(imported[k].description)
        /\ RatLeq(engine.fuzzy_threshold, One)}

\* C23 as stated: if the existing list holds a transaction with the date and
\* the amount of an imported transaction, its MatchResult is Exact with
\* confidence 1 and difference 0, for every tolerance, window, threshold and
\* every other content of the existing list.
C23_AsStated ==
    Done =>
        \A k \in ImportedIdx :
            Perfect(k) /= {} =>
                /\ results[k].match_type = <<"Exact">>
                /\ results[k].confidence = One
                /\ results[k].difference_cents = 0

\* C23 (amended): with a non-negative tolerance and window, an imported
\* transaction that has a same-date same-amount counterpart is matched with
\* confidence 1 for every threshold; the result is Exact with difference 0
\* unless a same-date transaction with a different amount within tolerance
\* and an equal normalised description comes after every counterpart, in
\* which case the last such transaction is reported as DateAndAmount.
C23_ExactCounterpart ==
    Done =>
        \A k \in ImportedIdx :
            ( /\ Perfect(k) /= {}
              /\ engine.amount_tolerance_cents >= 0
              /\ engine.date_window_days >= 0 )
            => LET last == LastOf(Perfect(k) \cup Rivals(k))
               IN  /\ results[k].confidence = One
                   /\ results[k].matched_tx_id = <<existing[last].id>>
                   /\ results[k].difference_cents = AmountDistance(k, last)
                   /\ results[k].match_type =
                          IF last \in Perfect(k) THEN <<"Exact">> ELSE <<"DateAndAmount">>

C23_Witness ==
    /\ Done
    /\ Len(imported) = 1
    /\ Len(existing) = 2
    /\ engine.fuzzy_threshold = <<3, 2>>
    /\ engine.amount_tolerance_cents = 1
    /\ Perfect(1) = {1}
    /\ DateDistance(1, 2) = 0 /\ AmountDistance(1, 2) = 1
    /\ results[1].match_type = <<"Exact">>
    /\ results[1].confidence = One
    /\ results[1].difference_cents = 0

-----------------------------------------------------------------------------
(* levenshtein_distance against the edit distance *)

\* the unit-cost edit distance by its defining recursion: delete the first
\* character of a, insert the first character of b, or substitute
RECURSIVE EditDistance(_, _)
EditDistance(a, b) ==
    IF a = <<>> THEN Len(b)
    ELSE IF b = <<>> THEN Len(a)
    ELSE Min(Min(EditDistance(Tail(a), b) + 1, EditDistance(a, Tail(b)) + 1),
             EditDistance(Tail(a), Tail(b)) + (IF Head(a) = Head(b) THEN 0 ELSE 1))

\* C24: levenshtein_distance(a, b) equals the unit-cost edit distance for
\* all a and b; it is 0 exactly when a = b, the other string's length when
\* one is empty, symmetric, and at most max(len(a), len(b)).
C24_EditDistance ==
    (pc = "done" /\ sim_out /= <<>>) =>
        /\ sim_out.distance_ab = EditDistance(sim_a, sim_b)
        /\ sim_out.distance_ab = 0 <=> sim_a = sim_b
        /\ sim_a = <<>> => sim_out.distance_ab = Len(sim_b)
        /\ sim_b = <<>> => sim_out.distance_ab = Len(sim_a)
        /\ sim_out.distance_ab = sim_out.distance_ba
        /\ sim_out.distance_ab <= Max(Len(sim_a), Len(sim_b))

C24_Witness ==
    /\ pc = "done"
    /\ sim_out /= <<>>
    /\ Len(sim_a) = 3
    /\ Len(sim_b) = 2
    /\ sim_a[1] = sim_b[2]
    /\ sim_out.distance_ab = 2
    /\ sim_out.distance_ba = 2
    /\ EditDistance(sim_a, sim_b) = 2

-----------------------------------------------------------------------------
(* The order of the date formats *)

MonthFirstSlash == <<"%m", "/", "%d", "/", "%Y">>

DayFirstSlash == <<"%d", "/", "%m", "/", "%Y">>

\* the fallback order as the specification lists it: MM/DD/YYYY, DD/MM/YYYY,
\* YYYY/MM/DD, MM-DD-YYYY, DD-MM-YYYY, YYYY-MM-DD
ListedOrder ==
    << MonthFirstSlash, DayFirstSlash, <<"%Y", "/", "%m", "/", "%d">>,
       <<"%m", "-", "%d", "-", "%Y">>, <<"%d", "-", "%m", "-", "%Y">>,
       <<"%Y", "-", "%m", "-", "%d">> >>

\* the configured format followed by the listed fallbacks
TriedInOrder == <<date_format>> \o ListedOrder

\* the positions in TriedInOrder of the formats that read the trimmed text
Succeeding == {i \in 1..Len(TriedInOrder) : parse_from_str(Trim(date_text), TriedInOrder[i]) /= <<>>}

DateDone == pc = "done" /\ date_parsed /= <<>>

\* C25: parse_date returns the date given by the first format that succeeds,
\* the configured format first and then MM/DD/YYYY, DD/MM/YYYY, YYYY/MM/DD,
\* MM-DD-YYYY, DD-MM-YYYY, YYYY-MM-DD; a text valid both as MM/DD/YYYY and as
\* DD/MM/YYYY is read month-first unless the configured format reads it; the
\* result is InvalidDate only when every format fails.
C25_FormatOrder ==
    DateDone =>
        /\ Succeeding = {} <=> date_parsed = <<"Err", "InvalidDate">>
        /\ Succeeding /= {} =>
               date_parsed =
                   <<"Ok", parse_from_str(Trim(date_text), TriedInOrder[FirstOf(Succeeding)])[1]>>
        /\ ( /\ parse_from_str(Trim(date_text), MonthFirstSlash) /= <<>>
             /\ parse_from_str(Trim(date_text), DayFirstSlash) /= <<>>
             /\ parse_from_str(Trim(date_text), date_format) = <<>> )
           => date_parsed = <<"Ok", parse_from_str(Trim(date_text), MonthFirstSlash)[1]>>

C25_Witness ==
    /\ DateDone
    /\ date_text = <<"0", "2", "/", "1", "2", "/", "2", "0", "2", "4">>
    /\ date_format = <<"%Y", "-", "%m", "-", "%d">>
    /\ parse_from_str(date_text, DayFirstSlash) = <<[year |-> 2024, month |-> 12, day |-> 2]>>
    /\ date_parsed = <<"Ok", [year |-> 2024, month |-> 2, day |-> 12]>>

-----------------------------------------------------------------------------
(* The top-level fields and the accumulator of the OFX scan *)

\* C27: while the scan is inside a STMTTRN block, processing any line leaves
\* the top-level statement fields (account id, bank id, account type, start
\* date, end date, currency) unchanged.
C27_TopLevelOutsideBlocks ==
    [][ in_stmttrn =>
            /\ account' = account
            /\ start_date' = start_date
            /\ end_date' = end_date
            /\ currency' = currency
      ]_vars

\* the line opens a block: <STMTTRN> in either case of letters
OpenLines == {Tag("STMTTRN", <<>>), Tag("stmttrn", <<>>)}

\* the lines whose tag is one of the six transaction leaf tags
TransactionLeafLines ==
    {ln \in Lines : ln.lt /\ ln.name \in {"FITID", "DTPOSTED", "TRNAMT", "MEMO", "NAME", "CHECKNUM"}}

FlagMatchesAccumulator == in_stmttrn <=> current_trx /= <<>>

\* C28: each </STMTTRN> emits at most one transaction, built from the
\* accumulator as filled since the most recent <STMTTRN>: a <STMTTRN> puts a
\* fresh accumulator in place of a pending one without emitting it, a
\* </STMTTRN> with no open block emits nothing, transaction leaf tags outside
\* a block change nothing, inside a block only they change the accumulator;
\* the flag is true exactly when an accumulator exists.
C28_Accumulator ==
    [][ /\ FlagMatchesAccumulator
        /\ FlagMatchesAccumulator'
        /\ Len(ofx_transactions') <= Len(ofx_transactions) + 1
        /\ \A ln \in OpenLines :
               Scans(ln) =>
                   /\ ofx_transactions' = ofx_transactions
                   /\ in_stmttrn'
                   /\ current_trx' = <<[fit_id |-> <<>>, date |-> <<>>, amount |-> <<>>,
                                        memo |-> <<>>, name |-> <<>>, check_number |-> <<>>]>>
        /\ Scans(CloseLine) =>
               /\ ~in_stmttrn => ofx_transactions' = ofx_transactions
               /\ Len(ofx_transactions') = Len(ofx_transactions) + 1 =>
                      LET tx == ofx_transactions'[Len(ofx_transactions')]
                      IN  /\ <<tx.date>> = current_trx[1].date
                          /\ tx.memo = current_trx[1].memo
                          /\ tx.name = current_trx[1].name
                          /\ tx.check_number = current_trx[1].check_number
        /\ \A ln \in TransactionLeafLines :
               (Scans(ln) /\ ~in_stmttrn) =>
                   UNCHANGED <<account, start_date, end_date, ofx_transactions, currency,
                               in_stmttrn, current_trx>>
        /\ \A ln \in Lines \ (TransactionLeafLines \cup OpenLines \cup {CloseLine}) :
               Scans(ln) => current_trx' = current_trx
      ]_vars

\* <STMTTRN>, <DTPOSTED>20240115, </STMTTRN>: one transaction, with the
\* fields no leaf tag set left empty
C28_Witness ==
    /\ pc = "scanning"
    /\ lines_read = 3
    /\ last_line = <<CloseLine>>
    /\ Len(ofx_transactions) = 1
    /\ ofx_transactions[1].date = [year |-> 2024, month |-> 1, day |-> 15]
    /\ ofx_transactions[1].memo = <<>>
    /\ ofx_transactions[1].fit_id = <<>>
    /\ ~in_stmttrn
    /\ current_trx = <<>>

-----------------------------------------------------------------------------
(* Repeated date tags in the OFX scan *)

January(d) == <<[year |-> 2024, month |-> 1, day |-> d]>>

\* C29: the value kept for DTSTART, DTEND and, inside a block, DTPOSTED is
\* the parse result of the last occurrence carrying a value: a valid value
\* sets the date, an unparseable one clears it whatever was there; ending
\* the input right after a cleared DTSTART or DTEND gives MissingField, and
\* closing the block right after a cleared DTPOSTED pushes no transaction.
C29_LastDateWins ==
    [][ /\ Scans(Tag("DTSTART", OfxDates.start)) => start_date' = January(1)
        /\ Scans(Tag("DTSTART", OfxDates.bad)) => start_date' = <<>>
        /\ Scans(Tag("DTEND", OfxDates.end)) => end_date' = January(31)
        /\ Scans(Tag("DTEND", OfxDates.bad)) => end_date' = <<>>
        /\ (Scans(Tag("DTPOSTED", OfxDates.posted)) /\ in_stmttrn) =>
               current_trx'[1].date = January(15)
        /\ (Scans(Tag("DTPOSTED", OfxDates.bad)) /\ in_stmttrn) =>
               current_trx'[1].date = <<>>
        /\ (pc' = "parsed" /\ last_line = <<Tag("DTSTART", OfxDates.bad)>>) =>
               ofx_result' = <<"Err", <<"MissingField", "DTSTART">> >>
        /\ (pc' = "parsed" /\ last_line = <<Tag("DTEND", OfxDates.bad)>>) =>
               /\ ofx_result'[1] = "Err"
               /\ ofx_result'[2][2] \in {"DTSTART", "DTEND"}
        /\ (Scans(CloseLine) /\ last_line = <<Tag("DTPOSTED", OfxDates.bad)>>) =>
               ofx_transactions' = ofx_transactions
      ]_vars

\* the account id and both dates were read, then a DTSTART that does not
\* parse, then the input ended: the start date is gone
C29_Witness ==
    /\ pc = "parsed"
    /\ lines_read = 5
    /\ last_line = <<Tag("DTSTART", OfxDates.bad)>>
    /\ start_date = <<>>
    /\ end_date = January(31)
    /\ account.account_id = <<"7">>
    /\ account.bank_id = <<>> /\ account.account_type = <<>> /\ currency = <<>>
    /\ ofx_transactions = <<>>
    /\ ~in_stmttrn
    /\ ofx_result = <<"Err", <<"MissingField", "DTSTART">> >>

====
